---------------------------- MODULE Spec2Model ----------------------------
(***************************************************************************)
(* A model of the ministark brainfuck example and of the STARK verifier.   *)
(*                                                                         *)
(*   - the bytecode compiler and the VM simulator with its table           *)
(*     derivation and padding          (mini-stark/examples/brainfuck/vm.rs)*)
(*   - the AIR constraint polynomials  (examples/brainfuck/constraints.rs) *)
(*   - the verifier pipeline Proof::verify              (src/verifier.rs)  *)
(*                                                                         *)
(* Six specifications share the module: Spec runs compile and simulate    *)
(* on bounded sources and inputs, SpecCompile runs compile alone on longer *)
(* bracket sources, SpecRaw runs simulate on programs compile did not      *)
(* build, SpecAir evaluates constraint lists on bounded rows and the       *)
(* degree adjustment of ood_constraint_evaluation, SpecVerify runs         *)
(* Proof::verify on bounded proofs, SpecTamper runs it again on a verified *)
(* proof with one field changed.                                           *)
(***************************************************************************)
EXTENDS Integers, Sequences, FiniteSets, TLC

VARIABLES
    \* ---- compiler and simulator (vm.rs) ----
    vmpc,              \* "compile" | "simulate" | "done" | "abort"
    build,             \* "debug" | "release": integer overflow panics or wraps
    source,            \* the source text, a sequence of characters
    program,           \* compile's result
    input,             \* the bytes the input stream still delivers before
                       \* read_exact fails (end of input or another error)
    consumed,          \* the bytes read_exact has taken from the input stream
    output,            \* the bytes written to the output stream
    writer,            \* the bytes the output stream accepts before
                       \* write_all fails
    tape,              \* the written cells of tape: [0u8; 1024]
    register,          \* struct Register
    processor_rows,
    instruction_rows,
    input_rows,
    output_rows,
    memory_rows,
    panic,             \* the panic message once vmpc = "abort"
    \* ---- Proof::verify (verifier.rs) ----
    vpc,               \* the position of verify in its pipeline
    phase,             \* 0: no proof; 1: the proof as built; 2: one field changed
    proof,             \* struct Proof, its query arrays as far as they were read
    tampered,          \* the field changed between phase 1 and phase 2
    public_coin,       \* the operations done on the public coin, in order
    steps,             \* the checks and evaluations executed, in order
    z,                 \* the out-of-domain point
    ood,               \* <<calculated, provided>> once both are computed
    leading_zeros,     \* <<seed_leading_zeros()>> once it is computed
    fri_verdicts,      \* whether FriVerifier::new, then verify, returned Ok
    query_positions,
    qi,                \* the iteration of verify_positions, from 1
    memo,              \* what the hash and the FRI verifier answered in phase 1
    fresh,             \* phase 2 asked them something phase 1 had not asked
    result,            \* "" | "Ok" | a VerificationError | "panic"
    \* ---- constraint evaluation (constraints.rs) ----
    apc,               \* "off" | "rows" | "evaluated" | "panic"
    air_in,            \* the rows, challenges and hints the constraints read
    air_out            \* the evaluations of the constraints, in list order

vmVars == <<vmpc, build, source, program, input, consumed, output, writer, tape, register,
            processor_rows, instruction_rows, input_rows, output_rows,
            memory_rows, panic>>

verifierVars == <<vpc, phase, proof, tampered, public_coin, steps, z, ood,
                  leading_zeros, fri_verdicts, query_positions, qi, memo, fresh,
                  result>>

airVars == <<apc, air_in, air_out>>

vars == <<vmpc, build, source, program, input, consumed, output, writer, tape, register,
          processor_rows, instruction_rows, input_rows, output_rows,
          memory_rows, panic,
          vpc, phase, proof, tampered, public_coin, steps, z, ood,
          leading_zeros, fri_verdicts, query_positions, qi, memo, fresh, result,
          apc, air_in, air_out>>

-----------------------------------------------------------------------------
(* Bounds of the model.                                                    *)

\* longest enumerated source text
MaxSrcLen == 3
\* longest input stream
MaxInput == 2
\* cycles after which a run is no longer followed
MaxCycles == 9

-----------------------------------------------------------------------------
(* Opcodes: enum OpCode, the ASCII code of the glyph.                      *)

IncrementPointer == 62
DecrementPointer == 60
Increment == 43
Decrement == 45
Write == 46
Read == 44
LoopBegin == 91
LoopEnd == 93

\* OpCode::VALUES, in its order
VALUES == <<IncrementPointer, DecrementPointer, Increment, Decrement,
            Write, Read, LoopBegin, LoopEnd>>

OpCodes == {VALUES[i] : i \in 1..Len(VALUES)}

\* a character lex treats as a comment
CommentChar == 32

\* tape: [0u8; 1024]
TapeSize == 1024

\* u8 arithmetic
ByteMod == 256

-----------------------------------------------------------------------------
(* The prime field Fp. Its modulus is not in the sources; a prime larger   *)
(* than every value a bounded run produces stands in for it, so that a     *)
(* product vanishes exactly when one of its factors does.                  *)

FieldModulus == 32749

FAdd(a, b) == (a + b) % FieldModulus
FSub(a, b) == (a + FieldModulus - b) % FieldModulus
FMul(a, b) == (a * b) % FieldModulus
FFrom(n) == n % FieldModulus

RECURSIVE FPow(_, _)
FPow(a, e) ==
    IF e = 0 THEN 1
    ELSE LET h == FPow(a, e \div 2)
             s == FMul(h, h)
         IN  IF e % 2 = 1 THEN FMul(s, a) ELSE s

\* Field::inverse: None for zero
HasInverse(a) == a % FieldModulus # 0
FInverse(a) == FPow(a, FieldModulus - 2)

\* an inverse column that is always zero
InverseAlwaysZero(a) == 0

\* mem_val.inverse().unwrap_or_else(Fp::zero)
InverseOrZero(a) == IF HasInverse(a) THEN FInverse(a) ELSE 0

-----------------------------------------------------------------------------
(* lex and compile                                                         *)

\* lex: opcode characters are kept in order, every other character dropped
lex(src) == SelectSeq(src, LAMBDA c : c \in OpCodes)

\* a back-patch that stores the index before the one asked for
SetCellBefore(prog, idx, value) == [prog EXCEPT ![idx + 1] = value - 1]

\* a back-patch that stores the index after the one asked for
SetCellAfter(prog, idx, value) == [prog EXCEPT ![idx + 1] = value + 1]

\* program[last] = value, last a 0-based index
SetCell(prog, idx, value) == [prog EXCEPT ![idx + 1] = value]

\* compile's loop over the opcodes from position k on; st is
\* [program, stack, failed]. A `]` with an empty stack is the panic
\* "loop has no beginning".
RECURSIVE CompileFrom(_, _, _)
CompileFrom(opcodes, k, st) ==
    IF k > Len(opcodes) \/ st.failed THEN st
    ELSE LET opcode == opcodes[k]
             pushed == Append(st.program, opcode)
         IN  IF opcode = LoopBegin
             THEN CompileFrom(opcodes, k + 1,
                    [program |-> Append(pushed, 0),
                     stack   |-> Append(st.stack, Len(pushed) + 1 - 1),
                     failed  |-> FALSE])
             ELSE IF opcode = LoopEnd
             THEN IF st.stack = <<>>
                  THEN [st EXCEPT !.failed = TRUE]
                  ELSE LET last == st.stack[Len(st.stack)]
                           withEnd == Append(pushed, last + 1)
                       IN  CompileFrom(opcodes, k + 1,
                             [program |-> SetCell(withEnd, last, Len(withEnd)),
                              stack   |-> SubSeq(st.stack, 1, Len(st.stack) - 1),
                              failed  |-> FALSE])
             ELSE CompileFrom(opcodes, k + 1, [st EXCEPT !.program = pushed])

compile(src) ==
    CompileFrom(lex(src), 1, [program |-> <<>>, stack |-> <<>>, failed |-> FALSE])

-----------------------------------------------------------------------------
(* Trace tables: rows are sequences of field elements, columns are named   *)
(* by the column enums of tables.rs (not in the sources; their order is    *)
(* the order in which vm.rs fills the rows and the order of the design's   *)
(* table of columns).                                                      *)

ProcessorBaseColumn ==
    [Cycle |-> 0, Ip |-> 1, CurrInstr |-> 2, NextInstr |-> 3,
     Mp |-> 4, MemVal |-> 5, MemValInv |-> 6, Dummy |-> 7]
MemoryBaseColumn == [Cycle |-> 0, Mp |-> 1, MemVal |-> 2, Dummy |-> 3]
InstructionBaseColumn == [Ip |-> 0, CurrInstr |-> 1, NextInstr |-> 2]
InputBaseColumn == [Value |-> 0]
OutputBaseColumn == [Value |-> 0]

\* what reading a column the row does not have yields: no field element
NoColumn == -1

\* row[col as usize]
Col(row, c) == IF c < Len(row) THEN row[c + 1] ELSE NoColumn

\* program.get(i).map_or(0, |&x| x)
GetOrZero(prog, i) == IF i < Len(prog) THEN prog[i + 1] ELSE 0

\* tape[mp] for mp < 1024; cells never written hold 0
TapeAt(t, mp) == IF mp \in DOMAIN t THEN t[mp] ELSE 0
TapeSet(t, mp, b) == [i \in DOMAIN t \cup {mp} |-> IF i = mp THEN b ELSE t[i]]

\* the Processor row pushed from the registers, without its last element
RegisterRow(reg) ==
    <<FFrom(reg.cycle), FFrom(reg.ip), FFrom(reg.curr_instr),
      FFrom(reg.next_instr), FFrom(reg.mp), FFrom(reg.mem_val)>>

\* the Instruction row pushed from the registers
RegisterInstructionRow(reg) ==
    <<FFrom(reg.ip), FFrom(reg.curr_instr), FFrom(reg.next_instr)>>

\* an Instruction table that starts without the rows of the program
NoProgramRows(prog) == <<>>

\* the Instruction rows of the program, pushed before the main loop
ProgramInstructionRows(prog) ==
    [i \in 1..Len(prog) |->
        <<FFrom(i - 1), FFrom(prog[i]), FFrom(GetOrZero(prog, i))>>]

-----------------------------------------------------------------------------
(* Sorting, derive_memory_rows, ceil_power_of_two and the pad functions    *)

\* Vec::insert(i, row), i a 0-based index
InsertAt(rows, i, row) ==
    SubSeq(rows, 1, i) \o <<row>> \o SubSeq(rows, i + 1, Len(rows))

\* instruction_rows.sort_by_key(|row| row[0]): a stable sort
RECURSIVE SortInstructionRowsFrom(_, _, _)
SortInstructionRowsFrom(rows, k, sorted) ==
    IF k > Len(rows) THEN sorted
    ELSE LET row == rows[k]
             n == Cardinality({i \in 1..Len(sorted) : sorted[i][1] <= row[1]})
         IN  SortInstructionRowsFrom(rows, k + 1, InsertAt(sorted, n, row))

SortInstructionRows(rows) == SortInstructionRowsFrom(rows, 1, <<>>)

\* the key (row[Mp], row[Cycle]) compared lexicographically
MemoryKeyLeq(a, b) ==
    LET M == MemoryBaseColumn
    IN  \/ Col(a, M.Mp) < Col(b, M.Mp)
        \/ Col(a, M.Mp) = Col(b, M.Mp) /\ Col(a, M.Cycle) <= Col(b, M.Cycle)

\* memory_rows.sort_by_key(|row| (row[Mp], row[Cycle])): a stable sort
RECURSIVE SortMemoryRowsFrom(_, _, _)
SortMemoryRowsFrom(rows, k, sorted) ==
    IF k > Len(rows) THEN sorted
    ELSE LET row == rows[k]
             n == Cardinality({i \in 1..Len(sorted) : MemoryKeyLeq(sorted[i], row)})
         IN  SortMemoryRowsFrom(rows, k + 1, InsertAt(sorted, n, row))

SortMemoryRows(rows) == SortMemoryRowsFrom(rows, 1, <<>>)

\* a projection that keeps every Processor row, the halt row included
ProjectEveryRow(proc_rows) ==
    LET P == ProcessorBaseColumn
    IN  [i \in 1..Len(proc_rows) |->
            <<Col(proc_rows[i], P.Cycle), Col(proc_rows[i], P.Mp),
              Col(proc_rows[i], P.MemVal), 0>>]

\* a projection that takes MemVal from the row after the projected one,
\* the value the cell holds once the instruction has run
ProjectValueAfter(proc_rows) ==
    LET P == ProcessorBaseColumn
        idx == SelectSeq([i \in 1..Len(proc_rows) |-> i],
                         LAMBDA i : Col(proc_rows[i], P.CurrInstr) # 0)
    IN  [k \in 1..Len(idx) |->
            LET after == IF idx[k] < Len(proc_rows) THEN idx[k] + 1 ELSE idx[k]
            IN  <<Col(proc_rows[idx[k]], P.Cycle), Col(proc_rows[idx[k]], P.Mp),
                  Col(proc_rows[after], P.MemVal), 0>>]

\* the filter_map of derive_memory_rows: one Memory row per Processor row
\* whose CurrInstr is not zero
ProjectMemoryRows(proc_rows) ==
    LET P == ProcessorBaseColumn
        kept == SelectSeq(proc_rows, LAMBDA row : Col(row, P.CurrInstr) # 0)
    IN  [i \in 1..Len(kept) |->
            <<Col(kept[i], P.Cycle), Col(kept[i], P.Mp), Col(kept[i], P.MemVal), 0>>]

\* a while loop that inserts nothing
NoDummyRows(rows, i) == rows

\* the while loop of derive_memory_rows from index i (0-based) on
RECURSIVE InsertDummyRows(_, _)
InsertDummyRows(rows, i) ==
    IF i < Len(rows) - 1
    THEN LET M == MemoryBaseColumn
             curr == rows[i + 1]
             next == rows[i + 2]
         IN  IF /\ Col(curr, M.Mp) = Col(next, M.Mp)
                /\ FAdd(Col(curr, M.Cycle), 1) # Col(next, M.Cycle)
             THEN InsertDummyRows(
                    InsertAt(rows, i + 1,
                        <<FAdd(Col(curr, M.Cycle), 1), Col(curr, M.Mp),
                          Col(curr, M.MemVal), 1>>),
                    i + 1)
             ELSE InsertDummyRows(rows, i + 1)
    ELSE rows

\* memory_rows.len() - 1 on an empty vector overflows usize (a panic in a
\* debug build, an out-of-bounds index in a release build)
DeriveMemoryRowsPanics(proc_rows) == ProjectMemoryRows(proc_rows) = <<>>

derive_memory_rows(proc_rows) ==
    InsertDummyRows(SortMemoryRows(ProjectMemoryRows(proc_rows)), 0)

RECURSIVE NextPowerOfTwoFrom(_, _)
NextPowerOfTwoFrom(value, p) ==
    IF p >= value THEN p ELSE NextPowerOfTwoFrom(value, 2 * p)

\* usize::is_power_of_two
IsPowerOfTwo(value) == value >= 1 /\ NextPowerOfTwoFrom(value, 1) = value

\* a rounding that never returns its argument
PowerOfTwoAbove(value) == NextPowerOfTwoFrom(value + 1, 1)

ceil_power_of_two(value) ==
    IF IsPowerOfTwo(value) THEN value ELSE NextPowerOfTwoFrom(value, 1)

MaxOf(S) == CHOOSE m \in S : \A x \in S : x <= m

\* a row of n zeros with the given columns set
ZeroRowWith(n, set) == [i \in 1..n |-> IF (i - 1) \in DOMAIN set THEN set[i - 1] ELSE 0]

ProcessorPaddingRow(last_row) ==
    LET P == ProcessorBaseColumn
    IN  ZeroRowWith(Len(last_row),
            (P.Cycle :> FAdd(Col(last_row, P.Cycle), 1))
         @@ (P.Ip :> Col(last_row, P.Ip))
         @@ (P.CurrInstr :> 0)
         @@ (P.NextInstr :> 0)
         @@ (P.Mp :> Col(last_row, P.Mp))
         @@ (P.MemVal :> Col(last_row, P.MemVal))
         @@ (P.MemValInv :> Col(last_row, P.MemValInv)))

RECURSIVE pad_processor_rows(_, _)
pad_processor_rows(rows, n) ==
    IF Len(rows) < n
    THEN pad_processor_rows(Append(rows, ProcessorPaddingRow(rows[Len(rows)])), n)
    ELSE rows

\* a Memory padding row that is not marked as a dummy
MemoryPaddingRowUnmarked(last_row) ==
    LET M == MemoryBaseColumn
    IN  <<FAdd(Col(last_row, M.Cycle), 1), Col(last_row, M.Mp),
          Col(last_row, M.MemVal), 0>>

MemoryPaddingRow(last_row) ==
    LET M == MemoryBaseColumn
    IN  ZeroRowWith(Len(last_row),
            (M.Cycle :> FAdd(Col(last_row, M.Cycle), 1))
         @@ (M.Mp :> Col(last_row, M.Mp))
         @@ (M.MemVal :> Col(last_row, M.MemVal))
         @@ (M.Dummy :> 1))

RECURSIVE pad_memory_rows(_, _)
pad_memory_rows(rows, n) ==
    IF Len(rows) < n
    THEN pad_memory_rows(Append(rows, MemoryPaddingRow(rows[Len(rows)])), n)
    ELSE rows

\* InstructionBaseColumn::NUM_TRACE_COLUMNS is 3; last_ip is read once,
\* before the loop
pad_instruction_rows(rows, n) ==
    LET I == InstructionBaseColumn
        last_ip == Col(rows[Len(rows)], I.Ip)
    IN  [i \in 1..(IF Len(rows) < n THEN n ELSE Len(rows)) |->
            IF i <= Len(rows) THEN rows[i] ELSE <<last_ip, 0, 0>>]

\* Input and Output rows have one column
pad_input_rows(rows, n) ==
    [i \in 1..(IF Len(rows) < n THEN n ELSE Len(rows)) |->
        IF i <= Len(rows) THEN rows[i] ELSE <<0>>]

pad_output_rows(rows, n) ==
    [i \in 1..(IF Len(rows) < n THEN n ELSE Len(rows)) |->
        IF i <= Len(rows) THEN rows[i] ELSE <<0>>]

-----------------------------------------------------------------------------
(* The AIR: constraints.rs. A constraint is evaluated on a row (curr) and  *)
(* its successor (next); one that reads a column the rows do not have has  *)
(* no value (NoColumn).                                                    *)

RECURSIVE ProductOver(_, _, _)
\* the product of (x - VALUES[k]) over the k from `from` on with VALUES[k] # skip
ProductOver(x, skip, from) ==
    IF from > Len(VALUES) THEN 1
    ELSE IF VALUES[from] = skip THEN ProductOver(x, skip, from + 1)
    ELSE FMul(FSub(x, FFrom(VALUES[from])), ProductOver(x, skip, from + 1))

\* instr_zerofier: zero exactly on the opcodes
instr_zerofier(x) == ProductOver(x, 0, 1)

\* a deselector that skips no opcode
DeselectNothing(instr, x) == ProductOver(x, 0, 1)

\* if_not_instr: zero on every opcode but instr
if_not_instr(instr, x) == ProductOver(x, instr, 1)

\* if_instr
if_instr(instr, x) == FSub(x, FFrom(instr))

\* MemVal.curr() * MemValInv.curr() - one
mem_val_is_zero(curr) ==
    LET P == ProcessorBaseColumn
    IN  FSub(FMul(Col(curr, P.MemVal), Col(curr, P.MemValInv)), 1)

\* instruction constraints that let every opcode, the loop instructions
\* included, step to the next cell
StepOnlyConstraints(instr, curr, next) ==
    LET P == ProcessorBaseColumn
    IN  <<FSub(FSub(Col(next, P.Ip), Col(curr, P.Ip)), 1),
          FSub(Col(next, P.Mp), Col(curr, P.Mp)),
          FSub(Col(next, P.MemVal), Col(curr, P.MemVal))>>

\* instr_constraints of ProcessorBaseColumn::transition_constraints: the
\* three slots for one opcode
InstrConstraints(instr, curr, next) ==
    LET P == ProcessorBaseColumn
        ip == Col(curr, P.Ip)            ip_n == Col(next, P.Ip)
        mp == Col(curr, P.Mp)            mp_n == Col(next, P.Mp)
        mv == Col(curr, P.MemVal)        mv_n == Col(next, P.MemVal)
        ni == Col(curr, P.NextInstr)
        ipStep == FSub(FSub(ip_n, ip), 1)
        ipSkip == FSub(FSub(ip_n, ip), 2)
    IN  IF instr = IncrementPointer
        THEN <<ipStep, FSub(FSub(mp_n, mp), 1), 0>>
        ELSE IF instr = DecrementPointer
        THEN <<ipStep, FAdd(FSub(mp_n, mp), 1), 0>>
        ELSE IF instr = Increment
        THEN <<ipStep, FSub(mp_n, mp), FSub(FSub(mv_n, mv), 1)>>
        ELSE IF instr = Decrement
        THEN <<ipStep, FSub(mp_n, mp), FAdd(FSub(mv_n, mv), 1)>>
        ELSE IF instr = Write
        THEN <<ipStep, FSub(mp_n, mp), 0>>
        ELSE IF instr = Read
        THEN <<ipStep, FSub(mp_n, mp), FSub(mv_n, mv)>>
        ELSE IF instr = LoopBegin
        THEN <<FAdd(FMul(mv, ipSkip), FMul(mem_val_is_zero(curr), FSub(ip_n, ni))),
               FSub(mp_n, mp), FSub(mv_n, mv)>>
        ELSE <<FAdd(FMul(mem_val_is_zero(curr), ipSkip), FMul(mv, FSub(ip_n, ni))),
               FSub(mp_n, mp), FSub(mv_n, mv)>>

\* constraints.slot: the sum over the opcodes of
\* deselector * instr_constraints.slot * CurrInstr.curr()
RECURSIVE DeselectedSum(_, _, _, _)
DeselectedSum(slot, curr, next, from) ==
    IF from > Len(VALUES) THEN 0
    ELSE LET ci == Col(curr, ProcessorBaseColumn.CurrInstr)
             deselector == if_not_instr(VALUES[from], ci)
         IN  FAdd(FMul(FMul(deselector, InstrConstraints(VALUES[from], curr, next)[slot]), ci),
                  DeselectedSum(slot, curr, next, from + 1))

\* ProcessorBaseColumn::boundary_constraints
ProcessorBoundary(curr) ==
    LET P == ProcessorBaseColumn
    IN  <<Col(curr, P.Cycle), Col(curr, P.Ip), Col(curr, P.Mp), Col(curr, P.MemVal),
          Col(curr, P.MemValInv), Col(curr, P.Dummy)>>

\* ProcessorBaseColumn::transition_constraints
ProcessorTransition(curr, next) ==
    LET P == ProcessorBaseColumn
        ci == Col(curr, P.CurrInstr)
        dummy == Col(curr, P.Dummy)
        dummy_n == Col(next, P.Dummy)
    IN  <<DeselectedSum(1, curr, next, 1),
          DeselectedSum(2, curr, next, 1),
          DeselectedSum(3, curr, next, 1),
          FSub(FSub(Col(next, P.Cycle), Col(curr, P.Cycle)), 1),
          FMul(Col(curr, P.MemVal), mem_val_is_zero(curr)),
          FMul(Col(curr, P.MemValInv), mem_val_is_zero(curr)),
          IF dummy_n = NoColumn THEN NoColumn
          ELSE FMul(FSub(dummy_n, 1), dummy_n),
          IF dummy = NoColumn THEN NoColumn
          ELSE FAdd(FMul(instr_zerofier(ci), FSub(dummy, 1)), FMul(ci, dummy))>>

\* MemoryBaseColumn::boundary_constraints
MemoryBoundary(curr) ==
    LET M == MemoryBaseColumn
    IN  <<Col(curr, M.Cycle), Col(curr, M.Mp), Col(curr, M.MemVal)>>

\* MemoryBaseColumn::transition_constraints
MemoryTransition(curr, next) ==
    LET M == MemoryBaseColumn
        dmp == FSub(Col(next, M.Mp), Col(curr, M.Mp))
    IN  <<FMul(FSub(dmp, 1), dmp),
          FMul(dmp, Col(next, M.MemVal)),
          FMul(FSub(Col(next, M.Dummy), 1), Col(next, M.Dummy)),
          FMul(dmp, Col(curr, M.Dummy)),
          FMul(FSub(Col(next, M.MemVal), Col(curr, M.MemVal)), Col(curr, M.Dummy)),
          FMul(FSub(dmp, 1), FSub(FSub(Col(next, M.Cycle), Col(curr, M.Cycle)), 1))>>

\* InstructionBaseColumn::boundary_constraints
InstructionBoundary(curr) == <<Col(curr, InstructionBaseColumn.Ip)>>

\* InstructionBaseColumn::transition_constraints
InstructionTransition(curr, next) ==
    LET I == InstructionBaseColumn
        dip == FSub(Col(next, I.Ip), Col(curr, I.Ip))
    IN  <<FMul(FSub(dip, 1), dip),
          FMul(FSub(dip, 1), FSub(Col(next, I.CurrInstr), Col(curr, I.CurrInstr))),
          FMul(FSub(dip, 1), FSub(Col(next, I.NextInstr), Col(curr, I.NextInstr)))>>

\* the extension columns, numbered from 0 within their table, in the
\* order of the design's table of columns
ProcessorExtensionColumn ==
    [InstructionPermutation |-> 0, MemoryPermutation |-> 1,
     InputEvaluation |-> 2, OutputEvaluation |-> 3]
MemoryExtensionColumn == [Permutation |-> 0]
InstructionExtensionColumn == [ProcessorPermutation |-> 0, ProgramEvaluation |-> 1]
InputExtensionColumn == [Evaluation |-> 0]
OutputExtensionColumn == [Evaluation |-> 0]

\* Alpha - A * ip - B * curr_instr - C * next_instr
InstructionFactor(ch, ip, curr_instr, next_instr) ==
    FSub(FSub(FSub(ch.Alpha, FMul(ch.A, ip)), FMul(ch.B, curr_instr)),
         FMul(ch.C, next_instr))

\* Beta - D * cycle - E * mp - F * mem_val
MemoryFactor(ch, cycle, mp, mem_val) ==
    FSub(FSub(FSub(ch.Beta, FMul(ch.D, cycle)), FMul(ch.E, mp)),
         FMul(ch.F, mem_val))

\* ProcessorExtensionColumn::transition_constraints; curr and next hold
\* the rows of all tables at the two indexes
ProcessorExtensionTransition(curr, next, ch) ==
    LET P == ProcessorBaseColumn
        X == ProcessorExtensionColumn
        base == curr.processor
        ci == Col(base, P.CurrInstr)
        dummy == Col(base, P.Dummy)
        ip_perm == Col(curr.processor_ext, X.InstructionPermutation)
        ip_perm_n == Col(next.processor_ext, X.InstructionPermutation)
        mem_perm == Col(curr.processor_ext, X.MemoryPermutation)
        mem_perm_n == Col(next.processor_ext, X.MemoryPermutation)
        in_eval == Col(curr.processor_ext, X.InputEvaluation)
        in_eval_n == Col(next.processor_ext, X.InputEvaluation)
        out_eval == Col(curr.processor_ext, X.OutputEvaluation)
        out_eval_n == Col(next.processor_ext, X.OutputEvaluation)
    IN  <<FAdd(FMul(ci,
                    FSub(FMul(ip_perm,
                              InstructionFactor(ch, Col(base, P.Ip), ci,
                                                Col(base, P.NextInstr))),
                         ip_perm_n)),
               FMul(dummy, FSub(ip_perm, ip_perm_n))),
          FMul(FMul(FMul(ci,
                         FSub(FMul(mem_perm,
                                   MemoryFactor(ch, Col(base, P.Cycle),
                                                Col(base, P.Mp),
                                                Col(base, P.MemVal))),
                              mem_perm_n)),
                    dummy),
               FSub(mem_perm, mem_perm_n)),
          FAdd(FMul(FMul(ci, if_not_instr(Read, ci)),
                    FSub(FSub(in_eval_n, FMul(ch.Gamma, in_eval)),
                         Col(next.processor, P.MemVal))),
               FMul(if_instr(Read, ci), FSub(in_eval_n, in_eval))),
          FAdd(FMul(FMul(ci, if_not_instr(Write, ci)),
                    FSub(FSub(out_eval_n, FMul(out_eval, ch.Delta)),
                         Col(base, P.MemVal))),
               FMul(if_instr(Write, ci), FSub(out_eval_n, out_eval)))>>

\* InstructionExtensionColumn::transition_constraints; curr and next hold
\* the rows of all tables at the two indexes
InstructionExtensionTransition(curr, next, ch) ==
    LET I == InstructionBaseColumn
        X == InstructionExtensionColumn
        ip == Col(curr.instruction, I.Ip)
        ip_n == Col(next.instruction, I.Ip)
        ci == Col(curr.instruction, I.CurrInstr)
        ci_n == Col(next.instruction, I.CurrInstr)
        ni_n == Col(next.instruction, I.NextInstr)
        pp == Col(curr.instruction_ext, X.ProcessorPermutation)
        pp_n == Col(next.instruction_ext, X.ProcessorPermutation)
        pe == Col(curr.instruction_ext, X.ProgramEvaluation)
        pe_n == Col(next.instruction_ext, X.ProgramEvaluation)
    IN  <<FAdd(FAdd(FMul(FMul(ci, FAdd(FSub(ip, ip_n), 1)),
                         FSub(pp_n,
                              FMul(pp, InstructionFactor(ch, ip_n, ci_n, ni_n)))),
                    FMul(instr_zerofier(ci), FSub(pp_n, pp))),
               FMul(FSub(ip, ip_n), FSub(pp, pp_n))),
          FAdd(FMul(FSub(FSub(ip_n, ip), 1), FSub(pe_n, pe)),
               FMul(FSub(ip_n, ip),
                    FSub(FSub(FSub(FSub(pe_n, FMul(pe, ch.Eta)),
                                   FMul(ch.A, ip_n)),
                              FMul(ch.B, ci_n)),
                         FMul(ch.C, ni_n))))>>

\* ProcessorExtensionColumn::terminal_constraints on the rows of all
\* tables at the last index
ProcessorExtensionTerminal(curr, ch, hint) ==
    LET P == ProcessorBaseColumn
        I == InstructionBaseColumn
        M == MemoryBaseColumn
        X == ProcessorExtensionColumn
        dummy == Col(curr.processor, P.Dummy)
        instr_ci == Col(curr.instruction, I.CurrInstr)
        mem_dummy == Col(curr.memory, M.Dummy)
        proc_perm == Col(curr.instruction_ext,
                         InstructionExtensionColumn.ProcessorPermutation)
        ip_perm == Col(curr.processor_ext, X.InstructionPermutation)
        perm == Col(curr.memory_ext, MemoryExtensionColumn.Permutation)
        mem_perm == Col(curr.processor_ext, X.MemoryPermutation)
        instr_factor == InstructionFactor(ch, Col(curr.instruction, I.Ip),
                                          instr_ci,
                                          Col(curr.instruction, I.NextInstr))
        proc_instr_factor == InstructionFactor(ch, Col(curr.processor, P.Ip),
                                               Col(curr.processor, P.CurrInstr),
                                               Col(curr.processor, P.NextInstr))
        mem_factor == MemoryFactor(ch, Col(curr.memory, M.Cycle),
                                   Col(curr.memory, M.Mp),
                                   Col(curr.memory, M.MemVal))
        proc_mem_factor == MemoryFactor(ch, Col(curr.processor, P.Cycle),
                                        Col(curr.processor, P.Mp),
                                        Col(curr.processor, P.MemVal))
    IN  <<FAdd(FAdd(FAdd(
              FMul(FMul(instr_ci, FSub(dummy, 1)),
                   FSub(FMul(proc_perm, instr_factor),
                        FMul(ip_perm, proc_instr_factor))),
              FMul(FMul(instr_zerofier(instr_ci), FSub(dummy, 1)),
                   FSub(proc_perm, FMul(ip_perm, proc_instr_factor)))),
              FMul(FMul(instr_ci, dummy),
                   FSub(FMul(proc_perm, instr_factor), ip_perm))),
              FMul(FMul(instr_zerofier(instr_ci), dummy),
                   FSub(proc_perm, ip_perm))),
          FAdd(FAdd(FAdd(
              FMul(FMul(FSub(mem_dummy, 1), FSub(dummy, 1)),
                   FSub(FMul(perm, mem_factor),
                        FMul(mem_perm, proc_mem_factor))),
              FMul(FMul(mem_dummy, FSub(dummy, 1)),
                   FSub(perm, FMul(mem_perm, proc_mem_factor)))),
              FMul(FMul(FSub(mem_dummy, 1), dummy),
                   FSub(FMul(perm, mem_factor), mem_perm))),
              FMul(FMul(mem_dummy, dummy), FSub(perm, mem_perm))),
          FSub(Col(curr.processor_ext, X.InputEvaluation), hint.Input),
          FSub(Col(curr.processor_ext, X.OutputEvaluation), hint.Output)>>

\* a table-side terminal constraint that compares with the hint alone
TerminalWithoutOffset(curr, hint) ==
    <<FSub(Col(curr.input_ext, InputExtensionColumn.Evaluation), hint.Input)>>

\* InputExtensionColumn::terminal_constraints
InputExtensionTerminal(curr, hint) ==
    <<FSub(Col(curr.input_ext, InputExtensionColumn.Evaluation),
           FMul(hint.Input, hint.InputOffset))>>

\* OutputExtensionColumn::terminal_constraints
OutputExtensionTerminal(curr, hint) ==
    <<FSub(Col(curr.output_ext, OutputExtensionColumn.Evaluation),
           FMul(hint.Output, hint.OutputOffset))>>

\* every constraint of the list evaluates to zero
AllZero(evals) == \A k \in 1..Len(evals) : evals[k] = 0

-----------------------------------------------------------------------------
(* simulate                                                                *)

\* `[` jumps to program[ip + 1] when the cell is zero
LoopBeginJumps(reg) == reg.mem_val = 0

\* a `]` that jumps back when the cell is zero
LoopEndJumpsOnZero(reg) == reg.mem_val = 0

\* `]` jumps to program[ip + 1] when the cell is not zero
LoopEndJumps(reg) == reg.mem_val # 0

\* a read that fails while a byte is left
ReadFailsEarly(inp) == Len(inp) <= 1

\* input.read_exact(&mut x) returns an error, at the end of the input or
\* for another reason: expect("failed to read input")
ReadFails(inp) == inp = <<>>

\* output.write_all(x) returns an error: expect("failed to write output")
WriteFails(out, limit) == Len(out) >= limit

\* The branch of the main loop for reg.curr_instr: the pointer registers,
\* the tape and the streams after it, or the panic that ends the run.
\* `written` and `read` are the bytes pushed to output_rows and input_rows.
ExecuteInstr(reg, prog, tp, inp, out, limit, bld) ==
    LET op == reg.curr_instr
        cell == TapeAt(tp, reg.mp)
        ok(ip, mp, t, i, w, r) ==
            [panic |-> "", ip |-> ip, mp |-> mp, tape |-> t, input |-> i,
             written |-> w, read |-> r]
        fail(msg) ==
            [panic |-> msg, ip |-> reg.ip, mp |-> reg.mp, tape |-> tp,
             input |-> inp, written |-> <<>>, read |-> <<>>]
    IN  IF op = LoopBegin
        THEN IF LoopBeginJumps(reg)
             THEN IF reg.ip + 1 < Len(prog)
                  THEN ok(prog[reg.ip + 2], reg.mp, tp, inp, <<>>, <<>>)
                  ELSE fail("index out of bounds")
             ELSE ok(reg.ip + 2, reg.mp, tp, inp, <<>>, <<>>)
        ELSE IF op = LoopEnd
        THEN IF LoopEndJumps(reg)
             THEN IF reg.ip + 1 < Len(prog)
                  THEN ok(prog[reg.ip + 2], reg.mp, tp, inp, <<>>, <<>>)
                  ELSE fail("index out of bounds")
             ELSE ok(reg.ip + 2, reg.mp, tp, inp, <<>>, <<>>)
        ELSE IF op = DecrementPointer
        THEN IF reg.mp = 0
             THEN IF bld = "debug"
                  THEN fail("attempt to subtract with overflow")
                  ELSE fail("index out of bounds")
             ELSE ok(reg.ip + 1, reg.mp - 1, tp, inp, <<>>, <<>>)
        ELSE IF op = IncrementPointer
        THEN ok(reg.ip + 1, reg.mp + 1, tp, inp, <<>>, <<>>)
        ELSE IF op = Increment
        THEN IF cell + 1 >= ByteMod /\ bld = "debug"
             THEN fail("attempt to add with overflow")
             ELSE ok(reg.ip + 1, reg.mp, TapeSet(tp, reg.mp, (cell + 1) % ByteMod),
                     inp, <<>>, <<>>)
        ELSE IF op = Decrement
        THEN IF cell = 0 /\ bld = "debug"
             THEN fail("attempt to subtract with overflow")
             ELSE ok(reg.ip + 1, reg.mp, TapeSet(tp, reg.mp, (cell + ByteMod - 1) % ByteMod),
                     inp, <<>>, <<>>)
        ELSE IF op = Write
        THEN IF WriteFails(out, limit)
             THEN fail("failed to write output")
             ELSE ok(reg.ip + 1, reg.mp, tp, inp, <<cell>>, <<>>)
        ELSE IF op = Read
        THEN IF ReadFails(inp)
             THEN fail("failed to read input")
             ELSE ok(reg.ip + 1, reg.mp, TapeSet(tp, reg.mp, Head(inp)), Tail(inp),
                     <<>>, <<Head(inp)>>)
        ELSE fail("unrecognized instruction")

\* output_rows.push(vec![x[0].into()]) for the byte written, if any
push_output_rows(rows, written) ==
    rows \o [i \in 1..Len(written) |-> <<FFrom(written[i])>>]

\* an Input table that takes the new row in front
PushInputRowsInFront(rows, read) ==
    [i \in 1..Len(read) |-> <<FFrom(read[i])>>] \o rows

\* input_rows.push(vec![x[0].into()]) for the byte read, if any
push_input_rows(rows, read) ==
    rows \o [i \in 1..Len(read) |-> <<FFrom(read[i])>>]

\* the registers at the end of one iteration of the main loop
NextRegister(reg, prog, res) ==
    [cycle      |-> reg.cycle + 1,
     ip         |-> res.ip,
     curr_instr |-> GetOrZero(prog, res.ip),
     next_instr |-> GetOrZero(prog, res.ip + 1),
     mp         |-> res.mp,
     mem_val    |-> TapeAt(res.tape, res.mp)]

\* the final Processor row can be built: mem_val.inverse().unwrap()
FinalRowPanics(reg) == ~HasInverse(FFrom(reg.mem_val))

\* the five tables simulate returns, from the rows collected by the main
\* loop and the registers at its exit
FinishTables(reg, proc, instr, inrows, outrows) ==
    LET proc_all == Append(proc, Append(RegisterRow(reg), FInverse(FFrom(reg.mem_val))))
        instr_all == SortInstructionRows(Append(instr, RegisterInstructionRow(reg)))
        mem == derive_memory_rows(proc_all)
        padding_len == ceil_power_of_two(
            MaxOf({Len(proc_all), Len(mem), Len(instr_all), Len(inrows), Len(outrows)}))
    IN  [processor   |-> pad_processor_rows(proc_all, padding_len),
         memory      |-> pad_memory_rows(mem, padding_len),
         instruction |-> pad_instruction_rows(instr_all, padding_len),
         input       |-> pad_input_rows(inrows, padding_len),
         output      |-> pad_output_rows(outrows, padding_len)]

-----------------------------------------------------------------------------
(* The runs of compile and simulate                                        *)

RECURSIVE SeqsUpTo(_, _)
SeqsUpTo(S, n) ==
    IF n = 0 THEN {<<>>}
    ELSE LET shorter == SeqsUpTo(S, n - 1)
         IN  shorter \cup {Append(q, x) : q \in shorter, x \in S}

\* the sources of the design's end-to-end scenarios, one with comments,
\* one whose loop body runs twice and one that comes back to a cell after
\* two cycles on another
ScenarioSources ==
    { <<Increment, LoopBegin, Decrement, IncrementPointer, Increment,
        DecrementPointer, LoopEnd>>,
      <<Read, Write>>,
      <<Increment, Increment, LoopBegin, Decrement, LoopEnd, Increment>>,
      <<Increment, IncrementPointer, Increment, DecrementPointer, Increment>>,
      <<CommentChar, Increment, CommentChar, LoopBegin, Decrement, LoopEnd,
        IncrementPointer, Increment>> }

Sources == SeqsUpTo(OpCodes, MaxSrcLen) \cup ScenarioSources

\* bytes an input stream may hold
InputBytes == {0, 65}

\* an output stream that accepts every byte a bounded run writes
NoLimit == MaxCycles

\* output streams: one that fails on the first write, one that fails on
\* the second, one that accepts every byte
WriterLimits == {0, 1, NoLimit}

ZeroRegister ==
    [cycle |-> 0, ip |-> 0, curr_instr |-> 0, next_instr |-> 0, mp |-> 0, mem_val |-> 0]

\* no constraint is being evaluated
AirOff ==
    /\ apc = "off"
    /\ air_in = <<>>
    /\ air_out = <<>>

\* no proof is being verified
VerifierOff ==
    /\ vpc = "off"
    /\ phase = 0
    /\ proof = <<>>
    /\ tampered = ""
    /\ public_coin = <<>>
    /\ steps = <<>>
    /\ z = 0
    /\ ood = <<>>
    /\ leading_zeros = <<>>
    /\ fri_verdicts = <<>>
    /\ query_positions = <<>>
    /\ qi = 1
    /\ memo = <<>>
    /\ fresh = FALSE
    /\ result = ""

Init ==
    /\ VerifierOff
    /\ AirOff
    /\ vmpc = "compile"
    /\ build \in {"debug", "release"}
    /\ source \in Sources
    /\ input \in SeqsUpTo(InputBytes, MaxInput)
    /\ program = <<>>
    /\ output = <<>>
    /\ writer \in WriterLimits
    /\ consumed = <<>>
    /\ tape = <<>>
    /\ register = ZeroRegister
    /\ processor_rows = <<>>
    /\ instruction_rows = <<>>
    /\ input_rows = <<>>
    /\ output_rows = <<>>
    /\ memory_rows = <<>>
    /\ panic = ""

Abort(msg) ==
    /\ vmpc' = "abort"
    /\ panic' = msg

\* compile(source)
Compile ==
    /\ vmpc = "compile"
    /\ LET res == compile(source)
       IN  IF res.failed
           THEN /\ Abort("loop has no beginning")
                /\ UNCHANGED program
           ELSE /\ vmpc' = "start"
                /\ program' = res.program
                /\ UNCHANGED panic
    /\ UNCHANGED <<build, source, input, consumed, output, writer, tape, register,
                   processor_rows,
                   instruction_rows, input_rows, output_rows, memory_rows>>
    /\ UNCHANGED verifierVars
    /\ UNCHANGED airVars

\* simulate, up to the main loop
SimulateStart ==
    /\ vmpc = "start"
    /\ IF program = <<>>
       THEN /\ Abort("index out of bounds")
            /\ UNCHANGED <<register, instruction_rows>>
       ELSE /\ vmpc' = "simulate"
            /\ register' = [ZeroRegister EXCEPT
                               !.curr_instr = program[1],
                               !.next_instr = IF Len(program) = 1 THEN 0 ELSE program[2]]
            /\ instruction_rows' = ProgramInstructionRows(program)
            /\ UNCHANGED panic
    /\ UNCHANGED <<build, source, program, input, consumed, output, writer, tape,
                   processor_rows,
                   input_rows, output_rows, memory_rows>>
    /\ UNCHANGED verifierVars
    /\ UNCHANGED airVars

\* one iteration of the main loop: one cycle
Step ==
    /\ vmpc = "simulate"
    /\ register.ip < Len(program)
    /\ register.cycle < MaxCycles
    /\ LET res == ExecuteInstr(register, program, tape, input, output, writer, build)
       IN  IF res.panic # ""
           THEN /\ Abort(res.panic)
                /\ UNCHANGED <<input, consumed, output, tape, register, processor_rows,
                               instruction_rows, input_rows, output_rows>>
           ELSE IF res.mp >= TapeSize
           THEN /\ Abort("index out of bounds")
                /\ UNCHANGED <<input, consumed, output, tape, register, processor_rows,
                               instruction_rows, input_rows, output_rows>>
           ELSE /\ processor_rows' =
                       Append(processor_rows,
                              Append(RegisterRow(register),
                                     InverseOrZero(FFrom(register.mem_val))))
                /\ instruction_rows' =
                       Append(instruction_rows, RegisterInstructionRow(register))
                /\ tape' = res.tape
                /\ input' = res.input
                /\ output' = output \o res.written
                /\ consumed' = consumed \o res.read
                /\ output_rows' = push_output_rows(output_rows, res.written)
                /\ input_rows' = push_input_rows(input_rows, res.read)
                /\ register' = NextRegister(register, program, res)
                /\ UNCHANGED <<vmpc, panic>>
    /\ UNCHANGED <<build, source, program, writer, memory_rows>>
    /\ UNCHANGED verifierVars
    /\ UNCHANGED airVars

\* simulate, after the main loop: the final rows, the sort, the Memory table
\* and the padding
SimulateFinish ==
    /\ vmpc = "simulate"
    /\ register.ip >= Len(program)
    /\ IF FinalRowPanics(register)
       THEN /\ Abort("unwrap on None")
            /\ UNCHANGED <<processor_rows, instruction_rows, input_rows,
                           output_rows, memory_rows>>
       ELSE LET t == FinishTables(register, processor_rows, instruction_rows,
                                  input_rows, output_rows)
            IN  /\ vmpc' = "done"
                /\ processor_rows' = t.processor
                /\ memory_rows' = t.memory
                /\ instruction_rows' = t.instruction
                /\ input_rows' = t.input
                /\ output_rows' = t.output
                /\ UNCHANGED panic
    /\ UNCHANGED <<build, source, program, input, consumed, output, writer, tape,
                   register>>
    /\ UNCHANGED verifierVars
    /\ UNCHANGED airVars

Next ==
    \/ Compile
    \/ SimulateStart
    \/ Step
    \/ SimulateFinish

Spec == Init /\ [][Next]_vars

-----------------------------------------------------------------------------
(* simulate on programs that compile did not build: simulate takes any     *)
(* &[usize].                                                               *)

\* longest program handed to simulate directly
MaxRawLen == 3

\* the cells of such a program: opcodes, and values that encode no opcode
RawCells == {0, 7, Increment, Read, Write, LoopBegin}

RawPrograms == SeqsUpTo(RawCells, MaxRawLen)

InitRaw ==
    /\ VerifierOff
    /\ AirOff
    /\ vmpc = "start"
    /\ build \in {"debug", "release"}
    /\ source = <<>>
    /\ input \in SeqsUpTo(InputBytes, MaxInput)
    /\ program \in RawPrograms
    /\ output = <<>>
    /\ writer \in WriterLimits
    /\ consumed = <<>>
    /\ tape = <<>>
    /\ register = ZeroRegister
    /\ processor_rows = <<>>
    /\ instruction_rows = <<>>
    /\ input_rows = <<>>
    /\ output_rows = <<>>
    /\ memory_rows = <<>>
    /\ panic = ""

NextRaw ==
    \/ SimulateStart
    \/ Step
    \/ SimulateFinish

SpecRaw == InitRaw /\ [][NextRaw]_vars

-----------------------------------------------------------------------------
(* compile alone, on longer sources made of brackets, one plain opcode and *)
(* one character that lex drops.                                           *)

\* longest source of brackets handed to compile
MaxBracketLen == 6

BracketSources ==
    SeqsUpTo({LoopBegin, LoopEnd, Increment, CommentChar}, MaxBracketLen)

InitCompile ==
    /\ VerifierOff
    /\ AirOff
    /\ vmpc = "compile"
    /\ build \in {"debug", "release"}
    /\ source \in BracketSources
    /\ input = <<>>
    /\ program = <<>>
    /\ output = <<>>
    /\ writer = NoLimit
    /\ consumed = <<>>
    /\ tape = <<>>
    /\ register = ZeroRegister
    /\ processor_rows = <<>>
    /\ instruction_rows = <<>>
    /\ input_rows = <<>>
    /\ output_rows = <<>>
    /\ memory_rows = <<>>
    /\ panic = ""

NextCompile == Compile

SpecCompile == InitCompile /\ [][NextCompile]_vars

-----------------------------------------------------------------------------
(* The constraints evaluated on row pairs: a Constraint is a polynomial in *)
(* the columns of the current and the next row, the challenges and the     *)
(* hints, and evaluating it reads nothing else.                            *)

\* the rows of the tables at one index; base and extension columns are
\* kept apart, each numbered from 0
ZeroRows ==
    [processor |-> <<0, 0, 0, 0, 0, 0, 0, 0>>, processor_ext |-> <<0, 0, 0, 0>>,
     memory |-> <<0, 0, 0, 0>>, memory_ext |-> <<0>>,
     instruction |-> <<0, 0, 0>>, instruction_ext |-> <<0, 0>>,
     input |-> <<0>>, input_ext |-> <<0>>,
     output |-> <<0>>, output_ext |-> <<0>>]

ZeroChallenges ==
    [Alpha |-> 0, Beta |-> 0, Gamma |-> 0, Delta |-> 0, Eta |-> 0,
     A |-> 0, B |-> 0, C |-> 0, D |-> 0, E |-> 0, F |-> 0]

ZeroHints ==
    [Input |-> 0, Output |-> 0, Instruction |-> 0, InputOffset |-> 0,
     OutputOffset |-> 0]

\* what ood_constraint_evaluation asks the Air and a constraint for
ZeroDegrees ==
    [constraint_degree |-> 0, trace_len |-> 1, divisor_degree |-> 0,
     composition_degree |-> 0]

\* what ood_constraint_evaluation is called with: the constraints of the
\* Air as far as the loop reads them, the coefficient pairs and the point
ZeroOod ==
    [air |-> [trace_len |-> 1, composition_degree |-> 0, group_gen_inv |-> 1,
              boundary_constraints |-> <<>>, transition_constraints |-> <<>>,
              terminal_constraints |-> <<>>],
     composition_coefficients |-> <<>>, x |-> 0]

AirInput(kind, curr, next, challenge, hint) ==
    [kind |-> kind, curr |-> curr, next |-> next, challenge |-> challenge,
     hint |-> hint, degrees |-> ZeroDegrees, ood |-> ZeroOod]

\* Processor row pairs for the base transition constraints: every
\* CurrInstr of a well-formed row, the next row any of the rows an
\* instruction can and cannot lead to
ProcessorBasePairs ==
    { AirInput("processor_base",
        [ZeroRows EXCEPT !.processor =
            <<1, 2, ci, 5, 1, mv, InverseOrZero(mv), IF ci = 0 THEN 1 ELSE 0>>],
        [ZeroRows EXCEPT !.processor =
            <<2, ip_n, 0, 0, mp_n, mv_n, InverseOrZero(mv_n), 1>>],
        ZeroChallenges, ZeroHints) :
        ci \in OpCodes \cup {0}, mv \in {0, 3}, ip_n \in {2, 3, 4, 5},
        mp_n \in {0, 1, 2}, mv_n \in {0, 2, 3, 4} }

\* usize arithmetic wraps at 2^64 in a build without overflow checks; the
\* model wraps at a smaller power of two, far above every degree it draws
UsizeModulus == 2 ^ 30

\* largest composition degree drawn
MaxCompositionDegree == 7

\* the degrees of one constraint of the loop of ood_constraint_evaluation:
\* the divisor degree is 1 (boundary, terminal) or trace_len - 1
\* (transition)
OodDegreeInputs ==
    UNION { { [AirInput("ood_degree", ZeroRows, ZeroRows, ZeroChallenges, ZeroHints)
                 EXCEPT !.degrees =
                     [constraint_degree |-> d, trace_len |-> n,
                      divisor_degree |-> dd, composition_degree |-> cd]] :
                d \in 0..3, dd \in {1, n - 1}, cd \in 0..MaxCompositionDegree } :
            n \in {2, 4, 8} }

\* an assertion that is compiled out
AssertSkipped(evaluation_degree, composition_degree) == FALSE

\* assert!(evaluation_degree <= composition_degree) fails
DegreeAssertFails(evaluation_degree, composition_degree) ==
    evaluation_degree > composition_degree

\* the degree adjustment of one constraint: <<degree_adjustment>>, or <<>>
\* when the thread panics on the subtraction (overflow checks on) or on
\* the assertion
degree_adjustment(g, bld) ==
    LET trace_degree == g.trace_len - 1
        product == g.constraint_degree * trace_degree
        underflow == product < g.divisor_degree
        evaluation_degree == (product - g.divisor_degree) % UsizeModulus
    IN  IF underflow /\ bld = "debug" THEN <<>>
        ELSE IF DegreeAssertFails(evaluation_degree, g.composition_degree) THEN <<>>
        ELSE <<g.composition_degree - evaluation_degree>>

\* a pop that takes the pair drawn first
PopFront(coefficients) ==
    [pair |-> coefficients[1], rest |-> Tail(coefficients)]

\* composition_coefficients.pop(): the last pair and the list without it
pop(coefficients) ==
    [pair |-> coefficients[Len(coefficients)],
     rest |-> SubSeq(coefficients, 1, Len(coefficients) - 1)]

\* boundary_iter.chain(transition_iter).chain(terminal_iter): every
\* constraint with the divisor and the divisor degree of its group
ChainedConstraints(air, x) ==
    LET last_trace_x == air.group_gen_inv
        boundary_divisor == FInverse(FSub(x, 1))
        terminal_divisor == FInverse(FSub(x, last_trace_x))
        transition_divisor ==
            FMul(FSub(x, last_trace_x), FInverse(FSub(FPow(x, air.trace_len), 1)))
        with(constraints, divisor, divisor_degree) ==
            [i \in 1..Len(constraints) |->
                [constraint |-> constraints[i], divisor |-> divisor,
                 divisor_degree |-> divisor_degree]]
    IN  with(air.boundary_constraints, boundary_divisor, 1)
            \o with(air.transition_constraints, transition_divisor, air.trace_len - 1)
            \o with(air.terminal_constraints, terminal_divisor, 1)

\* the loop of ood_constraint_evaluation from the first of items on:
\* <<result>>, or <<>> when the thread panics
RECURSIVE OodLoop(_, _, _, _, _, _)
OodLoop(items, coefficients, air, x, bld, sum) ==
    IF items = <<>> THEN <<sum>>
    ELSE LET item == Head(items)
             quotient == FMul(item.constraint.evaluation, item.divisor)
             adjustment ==
                 degree_adjustment(
                     [constraint_degree |-> item.constraint.degree,
                      trace_len |-> air.trace_len,
                      divisor_degree |-> item.divisor_degree,
                      composition_degree |-> air.composition_degree], bld)
         IN  IF adjustment = <<>> THEN <<>>
             ELSE IF coefficients = <<>> THEN <<>>
             ELSE LET popped == pop(coefficients)
                      alpha == popped.pair[1]
                      beta == popped.pair[2]
                  IN  OodLoop(Tail(items), popped.rest, air, x, bld,
                              FAdd(sum,
                                   FMul(quotient,
                                        FAdd(FMul(alpha, FPow(x, adjustment[1])),
                                             beta))))

\* ood_constraint_evaluation: <<result>>, or <<>> when an inverse does not
\* exist or the loop panics
ood_constraint_evaluation(composition_coefficients, air, x, bld) ==
    IF \/ ~HasInverse(FSub(x, 1))
       \/ ~HasInverse(FSub(x, air.group_gen_inv))
       \/ ~HasInverse(FSub(FPow(x, air.trace_len), 1))
    THEN <<>>
    ELSE OodLoop(ChainedConstraints(air, x), composition_coefficients, air, x,
                 bld, 0)

\* challenges drawn by the coin
SomeChallenges ==
    [Alpha |-> 20, Beta |-> 10, Gamma |-> 2, Delta |-> 3, Eta |-> 5,
     A |-> 1, B |-> 2, C |-> 3, D |-> 1, E |-> 2, F |-> 3]

\* Processor row pairs for the extension transition constraints: the
\* current row executes an instruction or is padding, the next row holds
\* any of a few values in its extension columns
ProcessorExtensionPairs ==
    { AirInput("processor_ext",
        [ZeroRows EXCEPT
            !.processor = <<1, 2, ci, 0, 1, 1, 1, IF ci = 0 THEN 1 ELSE 0>>,
            !.processor_ext = <<1, mem_perm, 1, 1>>],
        [ZeroRows EXCEPT
            !.processor = <<2, 3, 0, 0, 1, 1, 1, 1>>,
            !.processor_ext = <<ip_perm_n, mem_perm_n, in_eval_n, out_eval_n>>],
        SomeChallenges, ZeroHints) :
        ci \in {0, Increment, Read, Write}, mem_perm \in {1, 2},
        ip_perm_n \in {1, 7}, mem_perm_n \in 0..8,
        in_eval_n \in {1, 3}, out_eval_n \in {1, 4} }

\* Instruction row pairs for the extension transition constraints: the
\* current row holds an opcode or is padding, the next row has the same
\* Ip (then the same instruction, as the base constraints require) or the
\* next Ip, and ProcessorPermutation stays, takes the factor of the
\* current row or of the next row, or takes another value
InstructionExtensionPairs ==
    { LET ni == IF ci = 0 THEN 0 ELSE Decrement
          ci_n == IF ip_n = 2 THEN ci ELSE Decrement
          ni_n == IF ip_n = 2 THEN ni ELSE Write
          pp_n == CASE step = "same" -> pp
                    [] step = "curr" ->
                           FMul(pp, InstructionFactor(SomeChallenges, 2, ci, ni))
                    [] step = "next" ->
                           FMul(pp, InstructionFactor(SomeChallenges, ip_n, ci_n, ni_n))
                    [] OTHER -> FAdd(pp, 1)
      IN  AirInput("instruction_ext",
            [ZeroRows EXCEPT !.instruction = <<2, ci, ni>>,
                             !.instruction_ext = <<pp, 4>>],
            [ZeroRows EXCEPT !.instruction = <<ip_n, ci_n, ni_n>>,
                             !.instruction_ext = <<pp_n, pe_n>>],
            SomeChallenges, ZeroHints) :
        ci \in {0, Increment, LoopBegin}, ip_n \in {2, 3}, pp \in {1, 3},
        step \in {"same", "curr", "next", "other"}, pe_n \in {4, 432} }

\* the rows at the last index for the terminal constraints of the
\* Processor table: a padding or an executing last row, the running
\* evaluations equal to the hint, to hint times offset, or to neither;
\* the hint is 0 when the program reads or writes nothing
ProcessorTerminalRows ==
    { AirInput("processor_terminal",
        [ZeroRows EXCEPT
            !.processor = <<3, 1, 0, 0, 0, 1, 1, dummy>>,
            !.processor_ext = <<1, 1, in_eval, out_eval>>,
            !.instruction = <<1, 0, 0>>, !.instruction_ext = <<1, 4>>,
            !.memory = <<3, 0, 1, 1>>, !.memory_ext = <<1>>],
        ZeroRows, SomeChallenges,
        [ZeroHints EXCEPT !.Input = in, !.InputOffset = in_offset,
                          !.Output = out, !.OutputOffset = out_offset]) :
        dummy \in {0, 1}, in_eval \in {0, 6, 12}, out_eval \in {0, 5, 10},
        in \in {0, 6}, in_offset \in {1, 2},
        out \in {0, 5}, out_offset \in {1, 2} }

\* the last rows of the Input and of the Output table
TableTerminalRows ==
    { AirInput(kind,
        [ZeroRows EXCEPT !.input_ext = <<eval>>, !.output_ext = <<eval>>],
        ZeroRows, SomeChallenges,
        [ZeroHints EXCEPT !.Input = h, !.InputOffset = offset,
                          !.Output = h, !.OutputOffset = offset]) :
        kind \in {"input_terminal", "output_terminal"},
        eval \in {0, 6, 12}, h \in {0, 6}, offset \in {1, 2} }

\* a constraint as the loop of ood_constraint_evaluation sees it: its
\* value on the out-of-domain rows and its degree
OodConstraint(evaluation, degree) == [evaluation |-> evaluation, degree |-> degree]

\* the most coefficient pairs a call is given
MaxCoefficients == 5

\* the pairs drawn by the coin, all different
DrawnPairs(m) == [j \in 1..m |-> <<10 + j, 20 + j>>]

\* calls of ood_constraint_evaluation on a trace domain of four points:
\* up to four constraints in the three groups, fewer pairs than
\* constraints, as many, or more
OodSumInputs ==
    { [AirInput("ood_sum", ZeroRows, ZeroRows, ZeroChallenges, ZeroHints)
          EXCEPT !.ood =
              [air |-> [trace_len |-> 4, composition_degree |-> MaxCompositionDegree,
                        group_gen_inv |-> 17104,
                        boundary_constraints |->
                            SubSeq(<<OodConstraint(2, d)>>, 1, nb),
                        transition_constraints |->
                            SubSeq(<<OodConstraint(3, d), OodConstraint(5, 1)>>, 1, nt),
                        terminal_constraints |->
                            SubSeq(<<OodConstraint(7, d)>>, 1, nx)],
               composition_coefficients |-> DrawnPairs(m),
               x |-> x]] :
        nb \in {0, 1}, nt \in {1, 2}, nx \in {0, 1}, d \in {1, 2, 3},
        m \in 0..MaxCoefficients, x \in {2, 3} }

AirInputs ==
    ProcessorBasePairs \cup OodDegreeInputs \cup ProcessorExtensionPairs
        \cup InstructionExtensionPairs \cup ProcessorTerminalRows
        \cup TableTerminalRows \cup OodSumInputs

InitAir ==
    /\ VerifierOff
    /\ vmpc = "off"
    /\ build \in {"debug", "release"}
    /\ source = <<>>
    /\ input = <<>>
    /\ program = <<>>
    /\ output = <<>>
    /\ writer = NoLimit
    /\ consumed = <<>>
    /\ tape = <<>>
    /\ register = ZeroRegister
    /\ processor_rows = <<>>
    /\ instruction_rows = <<>>
    /\ input_rows = <<>>
    /\ output_rows = <<>>
    /\ memory_rows = <<>>
    /\ panic = ""
    /\ apc = "rows"
    /\ air_in \in AirInputs
    /\ air_out = <<>>

\* the evaluations of a list of constraints on the rows are kept
Evaluated(evals) ==
    /\ apc' = "evaluated"
    /\ air_out' = evals
    /\ UNCHANGED air_in
    /\ UNCHANGED vmVars
    /\ UNCHANGED verifierVars

\* ProcessorBaseColumn::transition_constraints on a row pair
EvaluateProcessorBase ==
    /\ apc = "rows"
    /\ air_in.kind = "processor_base"
    /\ Evaluated(ProcessorTransition(air_in.curr.processor, air_in.next.processor))

\* one turn of the loop of ood_constraint_evaluation, as far as the
\* exponent of x: the thread panics, or the exponent is computed
EvaluateOodDegree ==
    /\ apc = "rows"
    /\ air_in.kind = "ood_degree"
    /\ LET adjustment == degree_adjustment(air_in.degrees, build)
       IN  /\ apc' = IF adjustment = <<>> THEN "panic" ELSE "evaluated"
           /\ air_out' = adjustment
    /\ UNCHANGED air_in
    /\ UNCHANGED vmVars
    /\ UNCHANGED verifierVars

\* ProcessorExtensionColumn::transition_constraints on a row pair
EvaluateProcessorExtension ==
    /\ apc = "rows"
    /\ air_in.kind = "processor_ext"
    /\ Evaluated(ProcessorExtensionTransition(air_in.curr, air_in.next,
                                              air_in.challenge))

\* InstructionExtensionColumn::transition_constraints on a row pair
EvaluateInstructionExtension ==
    /\ apc = "rows"
    /\ air_in.kind = "instruction_ext"
    /\ Evaluated(InstructionExtensionTransition(air_in.curr, air_in.next,
                                                air_in.challenge))

\* ProcessorExtensionColumn::terminal_constraints on the last rows
EvaluateProcessorTerminal ==
    /\ apc = "rows"
    /\ air_in.kind = "processor_terminal"
    /\ Evaluated(ProcessorExtensionTerminal(air_in.curr, air_in.challenge,
                                            air_in.hint))

\* InputExtensionColumn::terminal_constraints on the last row
EvaluateInputTerminal ==
    /\ apc = "rows"
    /\ air_in.kind = "input_terminal"
    /\ Evaluated(InputExtensionTerminal(air_in.curr, air_in.hint))

\* OutputExtensionColumn::terminal_constraints on the last row
EvaluateOutputTerminal ==
    /\ apc = "rows"
    /\ air_in.kind = "output_terminal"
    /\ Evaluated(OutputExtensionTerminal(air_in.curr, air_in.hint))

\* ood_constraint_evaluation: the thread panics, or the sum is returned
EvaluateOodSum ==
    /\ apc = "rows"
    /\ air_in.kind = "ood_sum"
    /\ LET sum == ood_constraint_evaluation(air_in.ood.composition_coefficients,
                                            air_in.ood.air, air_in.ood.x, build)
       IN  /\ apc' = IF sum = <<>> THEN "panic" ELSE "evaluated"
           /\ air_out' = sum
    /\ UNCHANGED air_in
    /\ UNCHANGED vmVars
    /\ UNCHANGED verifierVars

NextAir ==
    \/ EvaluateProcessorBase
    \/ EvaluateProcessorExtension
    \/ EvaluateInstructionExtension
    \/ EvaluateProcessorTerminal
    \/ EvaluateInputTerminal
    \/ EvaluateOutputTerminal
    \/ EvaluateOodSum
    \/ EvaluateOodDegree

SpecAir == InitAir /\ [][NextAir]_vars

-----------------------------------------------------------------------------
(* Properties of compile and simulate                                      *)

\* the brackets of a source are balanced: never more `]` than `[` so far,
\* and as many at the end
RECURSIVE BalancedFrom(_, _, _)
BalancedFrom(src, k, depth) ==
    IF k > Len(src) THEN depth = 0
    ELSE IF src[k] = LoopBegin THEN BalancedFrom(src, k + 1, depth + 1)
    ELSE IF src[k] = LoopEnd THEN depth > 0 /\ BalancedFrom(src, k + 1, depth - 1)
    ELSE BalancedFrom(src, k + 1, depth)

Balanced(src) == BalancedFrom(src, 1, 0)

\* the consecutive row pairs of a table
RowPairs(rows) == 1..(Len(rows) - 1)

\* the base constraints of the Processor, Memory and Instruction tables
\* vanish on a trace
BaseConstraintsVanish(proc, mem, instr) ==
    /\ AllZero(ProcessorBoundary(proc[1]))
    /\ AllZero(MemoryBoundary(mem[1]))
    /\ AllZero(InstructionBoundary(instr[1]))
    /\ \A i \in RowPairs(proc) : AllZero(ProcessorTransition(proc[i], proc[i + 1]))
    /\ \A i \in RowPairs(mem) : AllZero(MemoryTransition(mem[i], mem[i + 1]))
    /\ \A i \in RowPairs(instr) : AllZero(InstructionTransition(instr[i], instr[i + 1]))

\* C1: for a balanced source and enough input, the trace simulate returns
\* satisfies every base boundary constraint on row 0 and every base
\* transition constraint on every pair of consecutive rows of the
\* Processor, Memory and Instruction tables.
C1_TraceSatisfiesBaseAir ==
    (vmpc = "done" /\ Balanced(source))
        => BaseConstraintsVanish(processor_rows, memory_rows, instruction_rows)

\* the cells a bounded run can reach
Cells == 0..(MaxCycles + 1)

\* C9: every executed cycle changes ip, mp and the tape as the opcode
\* table says: `>` ip+1 mp+1; `<` ip+1 mp-1; `+ - . ,` ip+1, mp unchanged;
\* `[` to program[ip+1] when mem_val = 0, else ip+2; `]` to program[ip+1]
\* when mem_val # 0, else ip+2; `[` and `]` leave mp and the tape alone;
\* only `+ - ,` change the tape, and only at cell mp.
C9_CycleFollowsOpcodeTable ==
    [][(vmpc = "simulate" /\ register'.cycle = register.cycle + 1) =>
        LET op == register.curr_instr
            ip == register.ip
            mp == register.mp
            ip_n == register'.ip
            mp_n == register'.mp
        IN  /\ op = IncrementPointer => ip_n = ip + 1 /\ mp_n = mp + 1
            /\ op = DecrementPointer => ip_n = ip + 1 /\ mp_n = mp - 1
            /\ op \in {Increment, Decrement, Write, Read} => ip_n = ip + 1 /\ mp_n = mp
            /\ op = LoopBegin =>
                 ip_n = (IF register.mem_val = 0 THEN program[ip + 2] ELSE ip + 2)
            /\ op = LoopEnd =>
                 ip_n = (IF register.mem_val # 0 THEN program[ip + 2] ELSE ip + 2)
            /\ op \in {LoopBegin, LoopEnd} => mp_n = mp /\ tape' = tape
            /\ op \notin {Increment, Decrement, Read} => tape' = tape
            /\ \A c \in Cells : c # mp => TapeAt(tape', c) = TapeAt(tape, c)
      ]_vars

\* a `]` has jumped back on a cell that is not zero
C9_Witness ==
    /\ vmpc = "simulate"
    /\ \E i \in 1..(Len(processor_rows) - 1) :
          /\ processor_rows[i][3] = LoopEnd
          /\ processor_rows[i][6] # 0
          /\ processor_rows[i + 1][2] <= processor_rows[i][2]

\* C10: when the main loop of a program compiled from a balanced source
\* exits, simulate returns a trace whose Processor table holds exactly one
\* final row, with CurrInstr = 0 and NextInstr = 0, after the rows of the
\* executed cycles; it does not abort, whatever the current cell holds.
C10_HaltReturnsTrace ==
    [][(vmpc = "simulate" /\ register.ip >= Len(program) /\ Balanced(source)) =>
        /\ vmpc' = "done"
        /\ LET final == processor_rows'[Len(processor_rows) + 1]
           IN  /\ SubSeq(processor_rows', 1, Len(processor_rows)) = processor_rows
               /\ final[1] = FFrom(register.cycle)
               /\ final[3] = 0
               /\ final[4] = 0
      ]_vars

\* C11: in every Processor row pushed by simulate and in every row of the
\* Processor table it returns (executed cycles, final row, padding rows),
\* MemValInv is the inverse of MemVal when MemVal # 0 and 0 when
\* MemVal = 0: their product is 1 or 0 accordingly.
C11_MemValInvIsInverseOrZero ==
    \A i \in 1..Len(processor_rows) :
        LET P == ProcessorBaseColumn
            mem_val == Col(processor_rows[i], P.MemVal)
            mem_val_inv == Col(processor_rows[i], P.MemValInv)
        IN  IF mem_val # 0
            THEN FMul(mem_val, mem_val_inv) = 1
            ELSE mem_val_inv = 0 /\ FMul(mem_val, mem_val_inv) = 0

\* a returned Processor table with a zero cell, a non-zero cell and a
\* padding row
C11_Witness ==
    /\ vmpc = "done"
    /\ \E i \in 1..Len(processor_rows) : processor_rows[i][6] = 0
    /\ \E i \in 1..Len(processor_rows) :
          processor_rows[i][3] # 0 /\ processor_rows[i][6] > 1
    /\ \E i \in 2..Len(processor_rows) :
          processor_rows[i][3] = 0 /\ processor_rows[i - 1][3] = 0

\* C12: a cycle whose instruction is `,` with the input stream exhausted
\* ends the run with the read failure, a cycle whose curr_instr encodes
\* no opcode ends it with the unrecognized-instruction failure, and these
\* failures have no other cause; the run stops there and no trace is
\* returned.
C12_ReadAndOpcodeFailures ==
    [][/\ (vmpc = "simulate" /\ register.ip < Len(program)) =>
            /\ (register.curr_instr = Read /\ input = <<>>) =>
                  (vmpc' = "abort" /\ panic' = "failed to read input")
            /\ register.curr_instr \notin OpCodes =>
                  (vmpc' = "abort" /\ panic' = "unrecognized instruction")
            /\ panic' = "failed to read input" =>
                  (register.curr_instr = Read /\ input = <<>>)
            /\ panic' = "unrecognized instruction" =>
                  register.curr_instr \notin OpCodes
       /\ vmpc = "abort" => (vmpc' = "abort" /\ memory_rows' = <<>>)
      ]_vars

\* a run stopped after its first cycle on a cell that encodes no opcode
C12_Witness ==
    /\ vmpc = "abort"
    /\ panic = "unrecognized instruction"
    /\ register.cycle > 0
    /\ register.curr_instr \notin OpCodes

\* C13: tape cells wrap modulo 256 and the run goes on: a cycle that
\* executes `-` on a cell holding 0 leaves it holding 255, a cycle that
\* executes `+` on a cell holding 255 leaves it holding 0, and neither
\* ends the run.
C13_CellWrapsAndRunContinues ==
    [][(/\ vmpc = "simulate"
        /\ register.ip < Len(program)
        /\ register.cycle < MaxCycles) =>
           /\ (register.curr_instr = Decrement /\ TapeAt(tape, register.mp) = 0) =>
                 (vmpc' = "simulate" /\ TapeAt(tape', register.mp) = ByteMod - 1)
           /\ (register.curr_instr = Increment
                 /\ TapeAt(tape, register.mp) = ByteMod - 1) =>
                 (vmpc' = "simulate" /\ TapeAt(tape', register.mp) = 0)
      ]_vars

\* the brackets among the first k - 1 opcodes
BracketsBefore(ops, k) ==
    Cardinality({i \in 1..(k - 1) : ops[i] \in {LoopBegin, LoopEnd}})

\* the 0-based program index of the k-th opcode when every bracket is
\* followed by one jump cell
Addr(ops, k) == (k - 1) + BracketsBefore(ops, k)

\* the `[` at i and the `]` at j enclose a balanced stretch
Matched(ops, i, j) ==
    /\ i < j
    /\ ops[i] = LoopBegin
    /\ ops[j] = LoopEnd
    /\ Balanced(SubSeq(ops, i + 1, j - 1))

\* C14: for a source with balanced brackets the program holds the
\* opcodes in source order, each bracket followed by one jump cell; the
\* cell after a `[` holds the index just past the matching `]` and its
\* jump cell, the cell after a `]` the index just past the matching `[`
\* and its jump cell.
C14_JumpCellsOfBalancedSource ==
    (vmpc = "start" /\ Balanced(source)) =>
        LET ops == lex(source)
        IN  /\ Len(program) = Len(ops) + BracketsBefore(ops, Len(ops) + 1)
            /\ \A k \in 1..Len(ops) : program[Addr(ops, k) + 1] = ops[k]
            /\ \A i, j \in 1..Len(ops) :
                   Matched(ops, i, j) =>
                       /\ program[Addr(ops, i) + 2] = Addr(ops, j) + 2
                       /\ program[Addr(ops, j) + 2] = Addr(ops, i) + 2

\* a compiled source with a loop nested in a loop and a loop after a loop
C14_Witness ==
    /\ vmpc = "start"
    /\ Balanced(source)
    /\ LET ops == lex(source)
       IN  /\ \E i, j, k, l \in 1..Len(ops) :
                  i < k /\ l < j /\ Matched(ops, i, j) /\ Matched(ops, k, l)
           /\ \E i, j, k, l \in 1..Len(ops) :
                  j < k /\ Matched(ops, i, j) /\ Matched(ops, k, l)

\* C15: compile fails, and returns no program, on a `]` met with an empty
\* loop stack and on a loop stack that is not empty at the end of the
\* source; no returned program holds a placeholder that was never
\* patched.
C15_UnmatchedLoopFails ==
    vmpc # "compile" =>
        /\ ~Balanced(source) => (vmpc = "abort" /\ program = <<>>)
        /\ vmpc = "start" => \A k \in 1..Len(program) : program[k] # 0

\* the rows of a table, as a set
Range(rows) == {rows[i] : i \in 1..Len(rows)}

\* how many rows of a table are the row t
Occurrences(rows, t) == Cardinality({i \in 1..Len(rows) : rows[i] = t})

\* the (Ip, CurrInstr, NextInstr) triples of the non-padding rows
\* (CurrInstr # 0) of the Processor table
ProcessorTriples ==
    LET P == ProcessorBaseColumn
        kept == SelectSeq(processor_rows, LAMBDA row : Col(row, P.CurrInstr) # 0)
    IN  [i \in 1..Len(kept) |->
            <<Col(kept[i], P.Ip), Col(kept[i], P.CurrInstr), Col(kept[i], P.NextInstr)>>]

\* the non-padding rows (CurrInstr # 0) of the Instruction table
InstructionTriples ==
    SelectSeq(instruction_rows,
              LAMBDA row : Col(row, InstructionBaseColumn.CurrInstr) # 0)

\* one triple per non-zero cell of the program: its index, the cell and
\* the cell after it (0 after the last)
ProgramTriples ==
    LET all == [i \in 1..Len(program) |->
                   <<FFrom(i - 1), FFrom(program[i]),
                     IF i < Len(program) THEN FFrom(program[i + 1]) ELSE 0>>]
    IN  SelectSeq(all, LAMBDA t : t[2] # 0)

\* C16 as stated: in a returned trace the non-padding Processor rows and
\* the non-padding Instruction rows hold the same multiset of
\* (Ip, CurrInstr, NextInstr) triples.
C16_ProcessorTriplesEqualInstructionTriples ==
    vmpc = "done" =>
        \A t \in Range(ProcessorTriples) \cup Range(InstructionTriples) :
            Occurrences(InstructionTriples, t) = Occurrences(ProcessorTriples, t)

\* C16, amended: the non-padding Instruction rows hold the triples of the
\* non-padding Processor rows together with one triple per non-zero
\* program cell, as multisets.
C16_InstructionTriplesAreProcessorPlusProgram ==
    vmpc = "done" =>
        \A t \in Range(ProcessorTriples) \cup Range(InstructionTriples)
                   \cup Range(ProgramTriples) :
            Occurrences(InstructionTriples, t) =
                Occurrences(ProcessorTriples, t) + Occurrences(ProgramTriples, t)

\* a returned trace in which one instruction was executed twice
C16_Witness ==
    /\ vmpc = "done"
    /\ \E t \in Range(ProcessorTriples) :
           /\ Occurrences(ProcessorTriples, t) = 2
           /\ Occurrences(InstructionTriples, t) = 3
    /\ \E t \in Range(ProgramTriples) : Occurrences(ProcessorTriples, t) = 0

\* C17: in the Memory table of a returned trace, padding and dummy rows
\* included, consecutive rows are in ascending (Mp, Cycle) order, Mp
\* stays or grows by one, and with the same Mp the Cycle grows by exactly
\* one.
C17_MemoryRowsContiguous ==
    vmpc = "done" =>
        \A i \in RowPairs(memory_rows) :
            LET M == MemoryBaseColumn
                curr == memory_rows[i]
                next == memory_rows[i + 1]
            IN  /\ MemoryKeyLeq(curr, next)
                /\ \/ Col(next, M.Mp) = Col(curr, M.Mp)
                   \/ Col(next, M.Mp) = FAdd(Col(curr, M.Mp), 1)
                /\ Col(next, M.Mp) = Col(curr, M.Mp) =>
                       Col(next, M.Cycle) = FAdd(Col(curr, M.Cycle), 1)

\* a returned Memory table where two dummy rows in a row fill the cycles
\* the processor spent on another cell, followed by the rows of that cell
\* and by padding
C17_Witness ==
    /\ vmpc = "done"
    /\ \E i \in 2..(Len(memory_rows) - 3) :
           /\ memory_rows[i - 1][4] = 0
           /\ memory_rows[i][4] = 1
           /\ memory_rows[i + 1][4] = 1
           /\ memory_rows[i + 2][4] = 0
           /\ memory_rows[i + 2][2] = memory_rows[i][2]
           /\ memory_rows[i + 3][2] = memory_rows[i][2] + 1
    /\ memory_rows[Len(memory_rows)][4] = 1

\* the (Cycle, Mp, MemVal) triples of the Processor rows with
\* CurrInstr # 0
ProcessorMemoryEvents ==
    LET P == ProcessorBaseColumn
        kept == SelectSeq(processor_rows, LAMBDA row : Col(row, P.CurrInstr) # 0)
    IN  [i \in 1..Len(kept) |->
            <<Col(kept[i], P.Cycle), Col(kept[i], P.Mp), Col(kept[i], P.MemVal)>>]

\* the (Cycle, Mp, MemVal) triples of the Memory rows with Dummy = 0
MemoryEvents ==
    LET M == MemoryBaseColumn
        kept == SelectSeq(memory_rows, LAMBDA row : Col(row, M.Dummy) = 0)
    IN  [i \in 1..Len(kept) |->
            <<Col(kept[i], M.Cycle), Col(kept[i], M.Mp), Col(kept[i], M.MemVal)>>]

\* C18: the Memory rows with Dummy = 0 hold exactly the (Cycle, Mp,
\* MemVal) triples of the Processor rows with CurrInstr # 0, as
\* multisets, and every other Memory row has Dummy = 1 and the Mp and
\* MemVal of the row before it.
C18_MemoryEventsPreserved ==
    vmpc = "done" =>
        /\ \A t \in Range(ProcessorMemoryEvents) \cup Range(MemoryEvents) :
               Occurrences(MemoryEvents, t) = Occurrences(ProcessorMemoryEvents, t)
        /\ \A i \in 1..Len(memory_rows) :
               LET M == MemoryBaseColumn
               IN  Col(memory_rows[i], M.Dummy) # 0 =>
                       /\ Col(memory_rows[i], M.Dummy) = 1
                       /\ i > 1
                       /\ Col(memory_rows[i], M.Mp) = Col(memory_rows[i - 1], M.Mp)
                       /\ Col(memory_rows[i], M.MemVal) =
                              Col(memory_rows[i - 1], M.MemVal)

\* a returned trace whose Memory table has an inserted row that copies a
\* non-zero MemVal, between two rows of executed cycles
C18_Witness ==
    /\ vmpc = "done"
    /\ Len(MemoryEvents) >= 5
    /\ \E i \in 2..(Len(memory_rows) - 1) :
           /\ memory_rows[i][4] = 1
           /\ memory_rows[i][3] # 0
           /\ memory_rows[i - 1][4] = 0
           /\ \E j \in (i + 1)..Len(memory_rows) :
                  memory_rows[j][4] = 0 /\ memory_rows[j][2] = memory_rows[i][2]

\* the least element of a set of numbers
LeastOf(S) == CHOOSE m \in S : \A x \in S : m <= x

\* the cycles of the executed rows spent on the cell m
CyclesOn(rows, m) ==
    {Col(rows[i], ProcessorBaseColumn.Cycle) :
        i \in {j \in 1..Len(rows) : Col(rows[j], ProcessorBaseColumn.Mp) = m}}

\* the rows of the Memory table before padding: for every cell the
\* processor executed on, one row per cycle from the first to the last
\* cycle spent on it
UnpaddedMemoryCount(rows) ==
    LET cells == {Col(rows[i], ProcessorBaseColumn.Mp) : i \in 1..Len(rows)}
        span[m \in cells] ==
            MaxOf(CyclesOn(rows, m)) - LeastOf(CyclesOn(rows, m)) + 1
        RECURSIVE Sum(_)
        Sum(S) == IF S = {} THEN 0
                  ELSE LET m == CHOOSE x \in S : TRUE
                       IN  span[m] + Sum(S \ {m})
    IN  Sum(cells)

\* the largest row count among the five tables before padding, from the
\* rows the main loop collected: the Processor and the Instruction table
\* get one more row, the final one
LargestUnpaddedCount ==
    MaxOf({Len(processor_rows) + 1, UnpaddedMemoryCount(processor_rows),
           Len(instruction_rows) + 1, Len(input_rows), Len(output_rows)})

\* C19: when simulate returns, the five tables have the same number of
\* rows N, and N is the smallest power of two that is at least the
\* largest row count before padding.
C19_TablesPaddedToSmallestPowerOfTwo ==
    [][(vmpc = "simulate" /\ vmpc' = "done") =>
          LET N == Len(processor_rows')
          IN  /\ Len(memory_rows') = N
              /\ Len(instruction_rows') = N
              /\ Len(input_rows') = N
              /\ Len(output_rows') = N
              /\ \E k \in 0..(MaxCycles + 1) : N = 2 ^ k
              /\ N >= LargestUnpaddedCount
              /\ N = 1 \/ N \div 2 < LargestUnpaddedCount
      ]_vars

\* a returned trace whose Instruction table needed no padding, its
\* unpadded row count being a power of two already, while the Processor
\* table was padded
C19_Witness ==
    /\ vmpc = "done"
    /\ Len(instruction_rows) = Len(program) + Len(ProcessorTriples) + 1
    /\ Len(processor_rows) > Len(ProcessorTriples) + 1
    /\ Len(output_rows) = Len(processor_rows)

\* the first n rows of a table
FirstRows(rows, n) == SubSeq(rows, 1, n)

\* C20: when simulate pads its tables, the rows a table had before are
\* kept, and every row after them follows the rule of the table: a
\* Processor row repeats Ip, Mp, MemVal and MemValInv of the row before
\* it with Cycle one higher and CurrInstr = NextInstr = 0; a Memory row
\* repeats Mp and MemVal with Cycle one higher and Dummy = 1; an
\* Instruction row has the Ip of the last row before padding and
\* CurrInstr = NextInstr = 0; Input and Output rows are zero.
C20_PaddingRowsFollowTableRule ==
    [][(vmpc = "simulate" /\ vmpc' = "done") =>
          LET P == ProcessorBaseColumn
              M == MemoryBaseColumn
              I == InstructionBaseColumn
              np == Len(processor_rows) + 1
              nm == UnpaddedMemoryCount(processor_rows)
              ni == Len(instruction_rows) + 1
              proc == processor_rows'
              mem == memory_rows'
              instr == instruction_rows'
          IN  /\ FirstRows(proc, np - 1) = processor_rows
              /\ Col(proc[np], P.Cycle) = FFrom(register.cycle)
              /\ \A i \in (np + 1)..Len(proc) :
                     /\ Len(proc[i]) = Len(proc[i - 1])
                     /\ Col(proc[i], P.Cycle) = FAdd(Col(proc[i - 1], P.Cycle), 1)
                     /\ Col(proc[i], P.Ip) = Col(proc[i - 1], P.Ip)
                     /\ Col(proc[i], P.CurrInstr) = 0
                     /\ Col(proc[i], P.NextInstr) = 0
                     /\ Col(proc[i], P.Mp) = Col(proc[i - 1], P.Mp)
                     /\ Col(proc[i], P.MemVal) = Col(proc[i - 1], P.MemVal)
                     /\ Col(proc[i], P.MemValInv) = Col(proc[i - 1], P.MemValInv)
              /\ \A i \in 1..nm : Col(mem[i], M.Dummy) = 0 =>
                     \E j \in 1..Len(processor_rows) :
                         /\ Col(mem[i], M.Cycle) = Col(processor_rows[j], P.Cycle)
                         /\ Col(mem[i], M.Mp) = Col(processor_rows[j], P.Mp)
                         /\ Col(mem[i], M.MemVal) = Col(processor_rows[j], P.MemVal)
              /\ Cardinality({i \in 1..nm : Col(mem[i], M.Dummy) = 0}) =
                     Len(processor_rows)
              /\ \A i \in (nm + 1)..Len(mem) :
                     /\ Len(mem[i]) = Len(mem[i - 1])
                     /\ Col(mem[i], M.Cycle) = FAdd(Col(mem[i - 1], M.Cycle), 1)
                     /\ Col(mem[i], M.Mp) = Col(mem[i - 1], M.Mp)
                     /\ Col(mem[i], M.MemVal) = Col(mem[i - 1], M.MemVal)
                     /\ Col(mem[i], M.Dummy) = 1
              /\ \A t \in Range(instruction_rows)
                             \cup {RegisterInstructionRow(register)} :
                     Occurrences(FirstRows(instr, ni), t) =
                         Occurrences(instruction_rows, t)
                         + (IF t = RegisterInstructionRow(register) THEN 1 ELSE 0)
              /\ \A i \in (ni + 1)..Len(instr) :
                     instr[i] = <<Col(instr[ni], I.Ip), 0, 0>>
              /\ FirstRows(input_rows', Len(input_rows)) = input_rows
              /\ \A i \in (Len(input_rows) + 1)..Len(input_rows') :
                     input_rows'[i] = <<0>>
              /\ FirstRows(output_rows', Len(output_rows)) = output_rows
              /\ \A i \in (Len(output_rows) + 1)..Len(output_rows') :
                     output_rows'[i] = <<0>>
      ]_vars

\* a returned trace in which every table was padded: the Memory table
\* after rows of two cells, the Input and the Output table after a row
C20_Witness ==
    /\ vmpc = "done"
    /\ Len(processor_rows) > Len(ProcessorTriples) + 1
    /\ Len(instruction_rows) > Len(program) + Len(ProcessorTriples) + 1
    /\ \E i \in 2..Len(memory_rows) :
           /\ memory_rows[i][2] = 1
           /\ memory_rows[i][4] = 1
           /\ memory_rows[i - 1][4] = 0
    /\ input_rows[1] # <<0>>
    /\ output_rows[1] # <<0>>
    /\ input_rows[Len(input_rows)] = <<0>>
    /\ output_rows[Len(output_rows)] = <<0>>

\* C21: for every opcode op and every CurrInstr of a well-formed row (an
\* opcode, or 0), if_not_instr(op, CurrInstr) * CurrInstr is not zero
\* exactly when CurrInstr = op; so each of the three deselected sums is
\* the term of the row's own opcode, and zero on a row with CurrInstr = 0.
C21_DeselectorSelectsOwnOpcode ==
    (apc = "evaluated" /\ air_in.kind = "processor_base") =>
        LET curr == air_in.curr.processor
            next == air_in.next.processor
            ci == Col(curr, ProcessorBaseColumn.CurrInstr)
        IN  /\ \A op \in OpCodes :
                   (FMul(if_not_instr(op, ci), ci) # 0) <=> (ci = op)
            /\ \A slot \in 1..3 :
                   air_out[slot] =
                       IF ci = 0 THEN 0
                       ELSE FMul(FMul(if_not_instr(ci, ci),
                                      InstrConstraints(ci, curr, next)[slot]), ci)

\* the constraints evaluated on a `]` row whose next row breaks the rule
\* of `]`: the sum is the non-zero term of `]`
C21_Witness ==
    /\ apc = "evaluated"
    /\ air_in.kind = "processor_base"
    /\ air_in.curr.processor[3] = LoopEnd
    /\ air_out[1] # 0
    /\ air_out[3] # 0

\* the Memory rows with Dummy = 0
RealMemoryRows ==
    SelectSeq(memory_rows, LAMBDA row : Col(row, MemoryBaseColumn.Dummy) = 0)

\* the run of source `+` with no input has returned its trace
PlusRunReturned ==
    /\ vmpc = "done"
    /\ source = <<Increment>>
    /\ input = <<>>

\* C22 as stated: for source `+` with empty input the Memory table has
\* exactly one row with Dummy = 0, and it has Mp = 0 and MemVal = 1.
C22_PlusMemoryRowHoldsOne ==
    PlusRunReturned =>
        /\ Len(RealMemoryRows) = 1
        /\ Col(RealMemoryRows[1], MemoryBaseColumn.Mp) = 0
        /\ Col(RealMemoryRows[1], MemoryBaseColumn.MemVal) = 1

\* C22, amended: for source `+` with empty input the Memory table has
\* exactly one row with Dummy = 0, the row of cycle 0 with Mp = 0 and the
\* MemVal the cell held before the `+`, 0; no Memory row holds 1, the
\* value after the `+`, which is in the final Processor row only.
C22_PlusMemoryRowHoldsValueBefore ==
    PlusRunReturned =>
        /\ Len(RealMemoryRows) = 1
        /\ RealMemoryRows[1] = <<0, 0, 0, 0>>
        /\ \A i \in 1..Len(memory_rows) :
               Col(memory_rows[i], MemoryBaseColumn.MemVal) = 0
        /\ Col(processor_rows[1], ProcessorBaseColumn.MemVal) = 0
        /\ Col(processor_rows[2], ProcessorBaseColumn.MemVal) = 1
        /\ Col(processor_rows[2], ProcessorBaseColumn.CurrInstr) = 0

\* the returned trace of source `+`: a Memory table of one projected row
\* and padding
C22_Witness ==
    /\ PlusRunReturned
    /\ Len(memory_rows) > 1
    /\ memory_rows[1][4] = 0
    /\ memory_rows[2][4] = 1
    /\ tape # <<>>

\* C26: on every executed `,` cycle of a trace the transition constraints
\* of `,` vanish on the pair of the row of that cycle and the next row:
\* Ip' - Ip - 1, Mp' - Mp and the third polynomial, MemVal' - MemVal,
\* whatever byte was read.
C26_ReadConstraintsVanishOnTrace ==
    \A i \in RowPairs(processor_rows) :
        Col(processor_rows[i], ProcessorBaseColumn.CurrInstr) = Read =>
            AllZero(InstrConstraints(Read, processor_rows[i], processor_rows[i + 1]))

\* C28: every Processor row of a returned trace has the eight base
\* columns, Dummy = 0 where CurrInstr is an opcode and Dummy = 1 where
\* CurrInstr = 0, so that instr_zerofier(CurrInstr) * (Dummy - 1) +
\* CurrInstr * Dummy is zero on every row and Dummy is 0 on row 0.
C28_ProcessorRowsCarryDummy ==
    vmpc = "done" =>
        /\ \A i \in 1..Len(processor_rows) :
               LET P == ProcessorBaseColumn
                   row == processor_rows[i]
                   ci == Col(row, P.CurrInstr)
               IN  /\ Len(row) = 8
                   /\ ci \in OpCodes => Col(row, P.Dummy) = 0
                   /\ ci = 0 => Col(row, P.Dummy) = 1
                   /\ FAdd(FMul(instr_zerofier(ci), FSub(Col(row, P.Dummy), 1)),
                           FMul(ci, Col(row, P.Dummy))) = 0
        /\ Col(processor_rows[1], ProcessorBaseColumn.Dummy) = 0

\* the Ip values a next row may hold
IpCandidates == 0..(2 * MaxSrcLen + 6)

\* the row with its Ip replaced
WithIp(row, ip) == [row EXCEPT ![ProcessorBaseColumn.Ip + 1] = ip]

\* the Ip the slot-0 polynomial of a loop instruction asks for
LoopTarget(row) ==
    LET P == ProcessorBaseColumn
        jump == Col(row, P.NextInstr)
        skip == FAdd(Col(row, P.Ip), 2)
    IN  IF Col(row, P.CurrInstr) = LoopBegin
        THEN IF Col(row, P.MemVal) = 0 THEN jump ELSE skip
        ELSE IF Col(row, P.MemVal) = 0 THEN skip ELSE jump

\* the rows of the trace that execute a loop instruction and have a
\* successor
LoopRows ==
    { i \in RowPairs(processor_rows) :
        Col(processor_rows[i], ProcessorBaseColumn.CurrInstr) \in {LoopBegin, LoopEnd} }

\* C31: on a row with CurrInstr = [ the slot-0 polynomial is zero exactly
\* if Ip' = Ip + 2 when MemVal # 0 and Ip' = NextInstr when MemVal = 0;
\* with CurrInstr = ] exactly if Ip' = NextInstr when MemVal # 0 and
\* Ip' = Ip + 2 when MemVal = 0; the next row of the trace holds that Ip,
\* and NextInstr is program[ip + 1].
C31_LoopConstraintsMatchSimulate ==
    vmpc \in {"simulate", "done"} =>
        \A i \in LoopRows :
            LET P == ProcessorBaseColumn
                row == processor_rows[i]
                next == processor_rows[i + 1]
            IN  /\ \A ip \in IpCandidates :
                       InstrConstraints(Col(row, P.CurrInstr), row,
                                        WithIp(next, ip))[1] = 0
                           <=> ip = LoopTarget(row)
                /\ Col(next, P.Ip) = LoopTarget(row)
                /\ Col(row, P.NextInstr) = GetOrZero(program, Col(row, P.Ip) + 1)

\* a returned trace entered a loop, jumped back from ] and left the loop
C31_Witness ==
    /\ vmpc = "done"
    /\ \E i, j, k \in LoopRows :
           LET P == ProcessorBaseColumn
           IN  /\ Col(processor_rows[i], P.CurrInstr) = LoopBegin
               /\ Col(processor_rows[i], P.MemVal) # 0
               /\ Col(processor_rows[j], P.CurrInstr) = LoopEnd
               /\ Col(processor_rows[j], P.MemVal) # 0
               /\ Col(processor_rows[k], P.CurrInstr) = LoopEnd
               /\ Col(processor_rows[k], P.MemVal) = 0


\* the 0-based program indexes that hold an opcode
OpcodeCells(ops) == {Addr(ops, k) : k \in 1..Len(ops)}

\* C32: for a program compiled from a balanced source, at the start of
\* every cycle ip is the index of an opcode cell, never of a jump cell,
\* curr_instr = program[ip], next_instr = program[ip + 1] (0 past the
\* end) and mem_val = tape[mp]; when the main loop exits, ip is
\* program.len() exactly.
C32_IpStaysOnOpcodeCells ==
    (vmpc = "simulate" /\ Balanced(source)) =>
        /\ register.ip <= Len(program)
        /\ register.ip < Len(program) =>
               /\ register.ip \in OpcodeCells(lex(source))
               /\ register.curr_instr \in OpCodes
        /\ register.curr_instr = GetOrZero(program, register.ip)
        /\ register.next_instr = GetOrZero(program, register.ip + 1)
        /\ register.mem_val = TapeAt(tape, register.mp)
        /\ \A i \in 1..Len(processor_rows) :
               LET P == ProcessorBaseColumn
                   row == processor_rows[i]
               IN  /\ Col(row, P.Ip) \in OpcodeCells(lex(source))
                   /\ Col(row, P.CurrInstr) = GetOrZero(program, Col(row, P.Ip))
                   /\ Col(row, P.NextInstr) = GetOrZero(program, Col(row, P.Ip) + 1)

\* the main loop of a program with jump cells has exited after a jump
\* back from a ] and a last instruction
C32_Witness ==
    /\ vmpc = "simulate"
    /\ Balanced(source)
    /\ register.ip = Len(program)
    /\ Len(program) > Len(lex(source))
    /\ \E i \in RowPairs(processor_rows) :
           LET P == ProcessorBaseColumn
           IN  /\ Col(processor_rows[i], P.CurrInstr) = LoopEnd
               /\ Col(processor_rows[i], P.MemVal) # 0
               /\ Col(processor_rows[i + 1], P.Ip) < Col(processor_rows[i], P.Ip)


\* the indexes of the Processor rows that execute instr, in order
ExecutedAt(instr) ==
    SelectSeq([i \in 1..Len(processor_rows) |-> i],
              LAMBDA i : Col(processor_rows[i], ProcessorBaseColumn.CurrInstr) = instr)

\* the cell a `,` row has stored: MemVal of the row after it
BytesRead ==
    [n \in 1..Len(ExecutedAt(Read)) |->
        Col(processor_rows[ExecutedAt(Read)[n] + 1], ProcessorBaseColumn.MemVal)]

\* the cell a `.` row writes: MemVal of the row
BytesWritten ==
    [n \in 1..Len(ExecutedAt(Write)) |->
        Col(processor_rows[ExecutedAt(Write)[n]], ProcessorBaseColumn.MemVal)]

\* the table holds the values in order, then zero rows only
HoldsThenPadding(rows, values) ==
    /\ Len(rows) >= Len(values)
    /\ \A n \in 1..Len(rows) :
           rows[n] = <<IF n <= Len(values) THEN values[n] ELSE 0>>

\* the bytes taken from the input stream, as field elements
ConsumedValues == [n \in 1..Len(consumed) |-> FFrom(consumed[n])]

\* C33: in a returned trace the Input table holds the bytes consumed from
\* the input stream, in the order they were consumed, one row for each
\* executed `,`, which stored that byte in its cell; the Output table
\* holds the bytes written by the executed `.` instructions, in order,
\* which are the bytes of the output stream; every other row of the two
\* tables is padding.
C33_InputOutputRowsFollowExecution ==
    vmpc = "done" =>
        /\ HoldsThenPadding(input_rows, ConsumedValues)
        /\ ConsumedValues = BytesRead
        /\ Len(consumed) = Len(ExecutedAt(Read))
        /\ HoldsThenPadding(output_rows, BytesWritten)
        /\ Len(output) = Len(BytesWritten)
        /\ \A n \in 1..Len(output) : FFrom(output[n]) = BytesWritten[n]

\* a returned trace of a run that consumed two different bytes and wrote
\* the second
C33_Witness ==
    /\ vmpc = "done"
    /\ source = <<Read, Read, Write>>
    /\ consumed = <<0, 65>>
    /\ output = <<65>>
    /\ input_rows[1] = <<0>>
    /\ input_rows[2] = <<65>>
    /\ output_rows[1] = <<65>>
    /\ Len(input_rows) > 2


-----------------------------------------------------------------------------
(* Proof::verify (verifier.rs).                                            *)
(*                                                                         *)
(* The hash behind the public coin, the AIR's evaluation at the            *)
(* out-of-domain point and the FRI verifier are not part of verifier.rs.   *)
(* Each of them is a function of what it is given: the model lets it       *)
(* answer anything the first time it is asked about some input, and the    *)
(* same again when it is asked about the same input. A digest stands for a *)
(* commitment, a field element for a row.                                  *)

\* largest options.num_queries
MaxQueries == 2
\* largest options.num_queries of a proof that is verified, changed in one
\* field and verified again
MaxTamperQueries == 1
\* largest options.grinding_factor, and largest seed_leading_zeros()
MaxGrinding == 1

Digests == {0, 1}
LdePositions == {0, 1}
RowValues == {0, 1}
OodPoints == {2, 3}
OodEvaluationLists == {<<>>, <<1>>, <<1, 1>>}
OodValues == 0..4

Tables == {"base", "extension", "composition"}

\* D::new_with_prefix(row_bytes).finalize()
LeafDigest(row) == <<"digest", row>>

\* a parsed MerkleProof: its leaf proof[0], and the root and the position
\* its path resolves to
MerkleProofs ==
    [leaf : {LeafDigest(r) : r \in RowValues}, root : Digests, pos : LdePositions]

\* MerkleTree::verify(&commitment, &proof, position)
MerkleVerify(commitment, mproof, position) ==
    /\ mproof.root = commitment
    /\ mproof.pos = position

\* A Vec of the proof of which a prefix has been read so far; closed when
\* the read found its end.
Unread == [known |-> <<>>, closed |-> FALSE]
NoRows == [known |-> <<>>, closed |-> TRUE]

\* what reading entry i of a Vec can find
Reveal(a, i, Domain) ==
    IF i <= Len(a.known) \/ a.closed
    THEN {a}
    ELSE {[known |-> a.known, closed |-> TRUE]}
             \cup {[known |-> Append(a.known, e), closed |-> FALSE] : e \in Domain}

\* what reading the first n entries of a Vec of rows can find
RevealRows(a, n) ==
    IF a.closed \/ Len(a.known) >= n
    THEN {a}
    ELSE {[known |-> a.known \o [j \in 1..k |-> 0],
           closed |-> (Len(a.known) + k < n)] : k \in 0..(n - Len(a.known))}

\* the bytes of the seed: public_inputs, trace_info and options serialized
SeedBytes(p) ==
    <<p.public_inputs, p.trace_info.num_base_columns,
      p.trace_info.num_extension_columns, p.options.num_queries,
      p.options.grinding_factor>>

CoinOp(name, data) == [op |-> name, data |-> data]

\* the coin operations of verify up to the draw of z
TranscriptBeforeZ(p) ==
    <<CoinOp("seed", SeedBytes(p)),
      CoinOp("reseed_base_commitment", <<p.base_trace_commitment>>),
      CoinOp("draw_challenges", <<>>)>>
    \o (IF p.extension_trace_commitment # <<>>
        THEN <<CoinOp("reseed_extension_commitment", p.extension_trace_commitment)>>
        ELSE <<>>)
    \o <<CoinOp("draw_composition_coeffs", <<>>),
         CoinOp("reseed_composition_commitment", <<p.composition_trace_commitment>>)>>

\* the same with z drawn before the composition commitment is absorbed
TranscriptDrawsZEarly(p) ==
    <<CoinOp("seed", SeedBytes(p)),
      CoinOp("reseed_base_commitment", <<p.base_trace_commitment>>),
      CoinOp("draw_challenges", <<>>)>>
    \o (IF p.extension_trace_commitment # <<>>
        THEN <<CoinOp("reseed_extension_commitment", p.extension_trace_commitment)>>
        ELSE <<>>)
    \o <<CoinOp("draw_composition_coeffs", <<>>),
         CoinOp("draw_z", <<>>),
         CoinOp("reseed_composition_commitment", <<p.composition_trace_commitment>>),
         CoinOp("reseed_ood_curr", <<p.ood_trace_states[1]>>),
         CoinOp("reseed_ood_next", <<p.ood_trace_states[2]>>)>>

\* the coin operations of verify up to the out-of-domain evaluation
TranscriptOps(p) ==
    TranscriptBeforeZ(p)
    \o <<CoinOp("draw_z", <<>>),
         CoinOp("reseed_ood_curr", <<p.ood_trace_states[1]>>),
         CoinOp("reseed_ood_next", <<p.ood_trace_states[2]>>)>>

\* ood_constraint_evaluations.iter().fold(zero, |res, value| res + value * acc)
\* with acc running through the powers of z
RECURSIVE FoldFrom(_, _, _, _, _)
FoldFrom(evals, i, point, acc, res) ==
    IF i > Len(evals) THEN res
    ELSE FoldFrom(evals, i + 1, point, FMul(acc, point), FAdd(res, FMul(evals[i], acc)))

provided_ood_constraint_evaluation(evals, point) == FoldFrom(evals, 1, point, 1, 0)

\* the comparison that never fails
OodNeverMismatches(calculated, provided) == FALSE

\* calculated_ood_constraint_evaluation != provided_ood_constraint_evaluation
OodMismatch(calculated, provided) == calculated # provided

\* the comparison that lets a grinding of one bit short through
InsufficientWorkStrict(zeros, grinding_factor) == zeros + 1 < grinding_factor

\* public_coin.seed_leading_zeros() < options.grinding_factor as u32
InsufficientWork(zeros, grinding_factor) == zeros < grinding_factor

\* every failed table reported as the base table
TableErrorBase(t) == "BaseTraceQueryDoesNotMatchCommitment"

\* the map_err of each verify_positions call
TableError(t) ==
    IF t = "base" THEN "BaseTraceQueryDoesNotMatchCommitment"
    ELSE IF t = "extension" THEN "ExtensionTraceQueryDoesNotMatchCommitment"
    ELSE "CompositionTraceQueryDoesNotMatchCommitment"

\* the body of the loop without the Merkle path
VerifyEntryLeafOnly(commitment, position, row, mproof) ==
    mproof.leaf = LeafDigest(row)

\* the body of the loop of verify_positions: the leaf is the digest of the
\* row, and the path resolves to the commitment at the position
VerifyEntry(commitment, position, row, mproof) ==
    /\ mproof.leaf = LeafDigest(row)
    /\ MerkleVerify(commitment, mproof, position)

\* the rows verify cuts out of trace_queries for a table
RowsOf(p, t) ==
    IF t = "extension" /\ p.trace_info.num_extension_columns = 0
    THEN NoRows
    ELSE p.trace_queries[t].rows

StoreRows(p, t, ra) ==
    IF t = "extension" /\ p.trace_info.num_extension_columns = 0
    THEN p
    ELSE [p EXCEPT !.trace_queries[t].rows = ra]

CommitmentOf(p, t) ==
    IF t = "base" THEN p.base_trace_commitment
    ELSE IF t = "extension" THEN p.extension_trace_commitment[1]
    ELSE p.composition_trace_commitment

\* the step after the verify_positions call of a table
AfterTable(p, t) ==
    IF t = "base"
    THEN (IF p.extension_trace_commitment # <<>> THEN "extension" ELSE "composition")
    ELSE IF t = "extension" THEN "composition"
    ELSE "deep"

MinOf(a, b) == IF a < b THEN a ELSE b

\* the rows a zip of n positions with the rows goes through
ZippedRows(a, n) == SubSeq(a.known, 1, MinOf(n, Len(a.known)))

RowOrNone(rows, i) == IF i <= Len(rows) THEN <<rows[i]>> ELSE <<>>

\* deep_composition_evaluations: the evaluation at a query position is
\* built from the position and from the base, extension and composition
\* row the zips pair with it; it is kept as these four
deep_composition_evaluations(positions, base_rows, extension_rows, composition_rows) ==
    [i \in 1..Len(positions) |->
        <<<<positions[i]>>, RowOrNone(base_rows, i), RowOrNone(extension_rows, i),
          RowOrNone(composition_rows, i)>>]

\* ood_constraint_evaluations[i] is indexed by the columns of a composition
\* row, one here
DeepPanics(composition_rows, evals) ==
    composition_rows # <<>> /\ Len(evals) < 1

\* ---- what the hash, the AIR and the FRI verifier answer ----

Unasked == [key |-> <<>>, val |-> <<>>]

NoMemo ==
    [z |-> Unasked, ood |-> Unasked, fri_new |-> Unasked, pow |-> Unasked,
     positions |-> Unasked, fri |-> Unasked]

Asked(name, key) == phase = 2 /\ memo[name].key = key

Answer(name, key, Domain) ==
    IF Asked(name, key) THEN {memo[name].val} ELSE Domain

Remember(name, key, val) ==
    /\ memo' = IF phase = 1
               THEN [memo EXCEPT ![name] = [key |-> key, val |-> val]]
               ELSE memo
    /\ fresh' = (fresh \/ (phase = 2 /\ memo[name].key # key))

\* ---- the proofs ----

Proofs(max_queries) ==
    [public_inputs : {0},
     trace_info : [num_base_columns : {1}, num_extension_columns : {0, 1}],
     options : [num_queries : 0..max_queries, grinding_factor : 0..MaxGrinding],
     base_trace_commitment : {0},
     extension_trace_commitment : {<<>>, <<0>>},
     composition_trace_commitment : {0},
     ood_trace_states : {<<0, 0>>},
     ood_constraint_evaluations : OodEvaluationLists,
     pow_nonce : {0},
     fri_proof : {0},
     trace_queries : {[t \in Tables |-> [rows |-> Unread, proofs |-> Unread]]}]

InitVerifier(max_queries) ==
    /\ AirOff
    /\ vmpc = "off"
    /\ build = "release"
    /\ source = <<>>
    /\ input = <<>>
    /\ program = <<>>
    /\ output = <<>>
    /\ writer = NoLimit
    /\ consumed = <<>>
    /\ tape = <<>>
    /\ register = ZeroRegister
    /\ processor_rows = <<>>
    /\ instruction_rows = <<>>
    /\ input_rows = <<>>
    /\ output_rows = <<>>
    /\ memory_rows = <<>>
    /\ panic = ""
    /\ vpc = "seed"
    /\ phase = 1
    /\ proof \in Proofs(max_queries)
    /\ tampered = ""
    /\ public_coin = <<>>
    /\ steps = <<>>
    /\ z = 0
    /\ ood = <<>>
    /\ leading_zeros = <<>>
    /\ fri_verdicts = <<>>
    /\ query_positions = <<>>
    /\ qi = 1
    /\ memo = NoMemo
    /\ fresh = FALSE
    /\ result = ""

InitVerify == InitVerifier(MaxQueries)

InitTamper == InitVerifier(MaxTamperQueries)

Return(r) ==
    /\ vpc' = "done"
    /\ result' = r

\* verify from the seed of the coin to the absorption of ood_trace_states
VerifyTranscript ==
    /\ vpc = "seed"
    /\ \E point \in Answer("z", TranscriptBeforeZ(proof), OodPoints) :
          /\ z' = point
          /\ Remember("z", TranscriptBeforeZ(proof), point)
    /\ public_coin' = TranscriptOps(proof)
    /\ vpc' = "ood"
    /\ UNCHANGED <<phase, proof, tampered, steps, ood, leading_zeros,
                   fri_verdicts, query_positions, qi, result>>
    /\ UNCHANGED vmVars
    /\ UNCHANGED airVars

\* ood_constraint_evaluation, the fold of the provided evaluations and
\* their comparison
VerifyOod ==
    /\ vpc = "ood"
    /\ \E calculated \in Answer("ood", public_coin,
                                {<<>>} \cup {<<v>> : v \in OodValues}) :
          /\ Remember("ood", public_coin, calculated)
          /\ IF calculated = <<>>
             THEN /\ Return("panic")
                  /\ UNCHANGED <<public_coin, steps, ood>>
             ELSE LET provided == provided_ood_constraint_evaluation(
                                      proof.ood_constraint_evaluations, z)
                  IN  /\ public_coin' = Append(public_coin,
                              CoinOp("reseed_ood_evaluations",
                                     proof.ood_constraint_evaluations))
                      /\ steps' = Append(steps, "ood")
                      /\ ood' = <<calculated[1], provided>>
                      /\ IF OodMismatch(calculated[1], provided)
                         THEN Return("InconsistentOodConstraintEvaluations")
                         ELSE /\ vpc' = "fri_new"
                              /\ UNCHANGED result
    /\ UNCHANGED <<phase, proof, tampered, z, leading_zeros, fri_verdicts,
                   query_positions, qi>>
    /\ UNCHANGED vmVars
    /\ UNCHANGED airVars

\* the draw of the DEEP coefficients and FriVerifier::new, which reads the
\* FRI proof with the coin
VerifyFriNew ==
    /\ vpc = "fri_new"
    /\ LET coin == Append(public_coin, CoinOp("draw_deep_coeffs", <<>>))
       IN  /\ public_coin' = Append(coin, CoinOp("fri_commit_phase", <<proof.fri_proof>>))
           /\ \E ok \in Answer("fri_new", <<coin, <<proof.fri_proof>>>>, BOOLEAN) :
                 /\ Remember("fri_new", <<coin, <<proof.fri_proof>>>>, ok)
                 /\ fri_verdicts' = Append(fri_verdicts, ok)
                 /\ IF ok
                    THEN /\ vpc' = "pow"
                         /\ UNCHANGED result
                    ELSE Return("FriVerification")
    /\ steps' = Append(steps, "fri_new")
    /\ UNCHANGED <<phase, proof, tampered, z, ood, leading_zeros, query_positions, qi>>
    /\ UNCHANGED vmVars
    /\ UNCHANGED airVars

\* the proof of work
VerifyPow ==
    /\ vpc = "pow"
    /\ IF proof.options.grinding_factor # 0
       THEN LET coin == Append(public_coin,
                               CoinOp("reseed_pow_nonce", <<proof.pow_nonce>>))
            IN  /\ public_coin' = coin
                /\ steps' = Append(steps, "pow")
                /\ \E zeros \in Answer("pow", coin, 0..MaxGrinding) :
                      /\ Remember("pow", coin, zeros)
                      /\ leading_zeros' = <<zeros>>
                      /\ IF InsufficientWork(zeros, proof.options.grinding_factor)
                         THEN Return("FriProofOfWork")
                         ELSE /\ vpc' = "positions"
                              /\ UNCHANGED result
       ELSE /\ vpc' = "positions"
            /\ UNCHANGED <<public_coin, steps, leading_zeros, memo, fresh, result>>
    /\ UNCHANGED <<phase, proof, tampered, z, ood, fri_verdicts, query_positions, qi>>
    /\ UNCHANGED vmVars
    /\ UNCHANGED airVars

\* the draw of the query positions
VerifyDrawPositions ==
    /\ vpc = "positions"
    /\ LET coin == Append(public_coin, CoinOp("draw_positions", <<>>))
       IN  /\ public_coin' = coin
           /\ \E positions \in Answer("positions", coin,
                                      [1..proof.options.num_queries -> LdePositions]) :
                 /\ Remember("positions", coin, positions)
                 /\ query_positions' = positions
    /\ steps' = Append(steps, "positions")
    /\ vpc' = "base"
    /\ qi' = 1
    /\ UNCHANGED <<phase, proof, tampered, z, ood, leading_zeros, fri_verdicts,
                   result>>
    /\ UNCHANGED vmVars
    /\ UNCHANGED airVars

\* the zip of verify_positions has run out: the call returns Ok
PositionsVerified(p) ==
    /\ proof' = p
    /\ vpc' = AfterTable(p, vpc)
    /\ qi' = 1
    /\ UNCHANGED <<steps, result>>

\* one iteration of verify_positions on the table vpc: the zip ends with
\* the shortest of positions, proofs and rows
VerifyPositions ==
    /\ vpc \in Tables
    /\ IF qi > Len(query_positions)
       THEN PositionsVerified(proof)
       ELSE \E ra \in Reveal(RowsOf(proof, vpc), qi, {0}) :
              LET p1 == StoreRows(proof, vpc, ra)
              IN  IF qi > Len(ra.known)
                  THEN PositionsVerified(p1)
                  ELSE \E pa \in Reveal(p1.trace_queries[vpc].proofs, qi, MerkleProofs) :
                         LET p2 == [p1 EXCEPT !.trace_queries[vpc].proofs = pa]
                         IN  IF qi > Len(pa.known)
                             THEN PositionsVerified(p2)
                             ELSE /\ proof' = p2
                                  /\ steps' = Append(steps, vpc)
                                  /\ IF VerifyEntry(CommitmentOf(p2, vpc),
                                                    query_positions[qi],
                                                    ra.known[qi], pa.known[qi])
                                     THEN /\ qi' = qi + 1
                                          /\ UNCHANGED <<vpc, result>>
                                     ELSE /\ Return(TableError(vpc))
                                          /\ UNCHANGED qi
    /\ UNCHANGED <<phase, tampered, public_coin, z, ood, leading_zeros,
                   fri_verdicts, query_positions, memo, fresh>>
    /\ UNCHANGED vmVars
    /\ UNCHANGED airVars

\* deep_composition_evaluations and fri_verifier.verify
VerifyFri ==
    /\ vpc = "deep"
    /\ LET n == Len(query_positions)
       IN  \E ba \in RevealRows(RowsOf(proof, "base"), n),
              ea \in RevealRows(RowsOf(proof, "extension"), n),
              ca \in RevealRows(RowsOf(proof, "composition"), n) :
             LET p == StoreRows(StoreRows(StoreRows(proof, "base", ba),
                                          "extension", ea), "composition", ca)
                 evaluations == deep_composition_evaluations(
                                    query_positions, ZippedRows(ba, n),
                                    ZippedRows(ea, n), ZippedRows(ca, n))
                 key == <<public_coin, <<p.fri_proof>>, query_positions, evaluations>>
             IN  /\ proof' = p
                 /\ IF DeepPanics(ZippedRows(ca, n), p.ood_constraint_evaluations)
                    THEN /\ Return("panic")
                         /\ steps' = Append(steps, "deep")
                         /\ UNCHANGED <<memo, fresh, fri_verdicts>>
                    ELSE \E ok \in Answer("fri", key, BOOLEAN) :
                           /\ Remember("fri", key, ok)
                           /\ fri_verdicts' = Append(fri_verdicts, ok)
                           /\ steps' = steps \o <<"deep", "fri_verify">>
                           /\ Return(IF ok THEN "Ok" ELSE "FriVerification")
    /\ UNCHANGED <<phase, tampered, public_coin, z, ood, leading_zeros,
                   query_positions, qi>>
    /\ UNCHANGED vmVars
    /\ UNCHANGED airVars

NextVerify ==
    \/ VerifyTranscript
    \/ VerifyOod
    \/ VerifyFriNew
    \/ VerifyPow
    \/ VerifyDrawPositions
    \/ VerifyPositions
    \/ VerifyFri

SpecVerify == InitVerify /\ [][NextVerify]_vars

\* ---- one field of a verified proof changed, and verify run again ----

Flip(b) == 1 - b

\* the entries read so far of the rows and the Merkle proofs of a table
ReadRows(p, t) == 1..Len(p.trace_queries[t].rows.known)
ReadProofs(p, t) == 1..Len(p.trace_queries[t].proofs.known)

QueryArrayChanges(p) ==
    UNION {
      {[field |-> "trace_queries",
        proof |-> [p EXCEPT !.trace_queries[t].rows.known[i] = Flip(@)]] :
           i \in ReadRows(p, t)} \cup
      {[field |-> "trace_queries",
        proof |-> [p EXCEPT !.trace_queries[t].proofs.known[i].root = Flip(@)]] :
           i \in ReadProofs(p, t)} \cup
      {[field |-> "trace_queries",
        proof |-> [p EXCEPT !.trace_queries[t].proofs.known[i].pos = Flip(@)]] :
           i \in ReadProofs(p, t)} \cup
      {[field |-> "trace_queries",
        proof |-> [p EXCEPT !.trace_queries[t].proofs.known[i].leaf =
                                LeafDigest(Flip(@[2]))]] :
           i \in ReadProofs(p, t)} : t \in Tables }

\* the proofs that differ from p in one field
Tamperings(p) ==
    {[field |-> "public_inputs", proof |-> [p EXCEPT !.public_inputs = Flip(@)]],
     [field |-> "trace_info",
      proof |-> [p EXCEPT !.trace_info.num_extension_columns = Flip(@)]],
     [field |-> "base_trace_commitment",
      proof |-> [p EXCEPT !.base_trace_commitment = Flip(@)]],
     [field |-> "composition_trace_commitment",
      proof |-> [p EXCEPT !.composition_trace_commitment = Flip(@)]],
     [field |-> "extension_trace_commitment",
      proof |-> [p EXCEPT !.extension_trace_commitment =
                              IF @ = <<>> THEN <<0>> ELSE <<Flip(@[1])>>]],
     [field |-> "ood_trace_states", proof |-> [p EXCEPT !.ood_trace_states[1] = Flip(@)]],
     [field |-> "ood_trace_states", proof |-> [p EXCEPT !.ood_trace_states[2] = Flip(@)]],
     [field |-> "pow_nonce", proof |-> [p EXCEPT !.pow_nonce = Flip(@)]],
     [field |-> "fri_proof", proof |-> [p EXCEPT !.fri_proof = Flip(@)]]} \cup
    {[field |-> "options", proof |-> [p EXCEPT !.options.num_queries = n]] :
         n \in (0..MaxTamperQueries) \ {p.options.num_queries}} \cup
    {[field |-> "options", proof |-> [p EXCEPT !.options.grinding_factor = g]] :
         g \in (0..MaxGrinding) \ {p.options.grinding_factor}} \cup
    {[field |-> "ood_constraint_evaluations",
      proof |-> [p EXCEPT !.ood_constraint_evaluations = e]] :
         e \in OodEvaluationLists \ {p.ood_constraint_evaluations}} \cup
    QueryArrayChanges(p)

\* a proof that verified is changed in one field and handed to verify again
Tamper ==
    /\ phase = 1
    /\ vpc = "done"
    /\ result = "Ok"
    /\ \E c \in Tamperings(proof) :
          /\ proof' = c.proof
          /\ tampered' = c.field
    /\ phase' = 2
    /\ vpc' = "seed"
    /\ public_coin' = <<>>
    /\ steps' = <<>>
    /\ z' = 0
    /\ ood' = <<>>
    /\ leading_zeros' = <<>>
    /\ fri_verdicts' = <<>>
    /\ query_positions' = <<>>
    /\ qi' = 1
    /\ fresh' = FALSE
    /\ result' = ""
    /\ UNCHANGED memo
    /\ UNCHANGED vmVars
    /\ UNCHANGED airVars

NextTamper ==
    \/ VerifyTranscript
    \/ VerifyOod
    \/ VerifyFriNew
    \/ VerifyPow
    \/ VerifyDrawPositions
    \/ VerifyPositions
    \/ VerifyFri
    \/ Tamper

SpecTamper == InitTamper /\ [][NextTamper]_vars

-----------------------------------------------------------------------------
(* Properties of Proof::verify                                             *)

RECURSIVE CountFrom(_, _, _)
CountFrom(seq, x, i) ==
    IF i = 0 THEN 0
    ELSE CountFrom(seq, x, i - 1) + (IF seq[i] = x THEN 1 ELSE 0)

\* how often x occurs among the first n entries of seq
CountUpTo(seq, x, n) == CountFrom(seq, x, n)

Count(seq, x) == CountFrom(seq, x, Len(seq))

Executed(step) == \E i \in 1..Len(steps) : steps[i] = step

Absorbed(name) == \E i \in 1..Len(public_coin) : public_coin[i].op = name

Errors ==
    {"InconsistentOodConstraintEvaluations", "FriVerification",
     "BaseTraceQueryDoesNotMatchCommitment",
     "ExtensionTraceQueryDoesNotMatchCommitment",
     "CompositionTraceQueryDoesNotMatchCommitment", "FriProofOfWork"}

\* the tables whose commitment the proof carries
PresentTables(p) ==
    IF p.extension_trace_commitment # <<>> THEN Tables ELSE Tables \ {"extension"}

\* the k-th opening of table t resolves: the leaf is the digest of the row
\* and the path leads to the commitment at the k-th query position
OpeningResolves(t, k) ==
    LET row == RowsOf(proof, t).known[k]
        mproof == proof.trace_queries[t].proofs.known[k]
    IN  /\ mproof.leaf = LeafDigest(row)
        /\ mproof.root = CommitmentOf(proof, t)
        /\ mproof.pos = query_positions[k]

\* the check done by the i-th executed step passed
CheckPassed(i) ==
    LET step == steps[i]
    IN  IF step = "ood" THEN ood[1] = ood[2]
        ELSE IF step = "fri_new" THEN fri_verdicts[1]
        ELSE IF step = "pow" THEN leading_zeros[1] >= proof.options.grinding_factor
        ELSE IF step \in Tables THEN OpeningResolves(step, CountUpTo(steps, step, i))
        ELSE IF step = "fri_verify" THEN fri_verdicts[2]
        ELSE TRUE

\* the error each check reports
ErrorOfStep(step) ==
    IF step = "ood" THEN "InconsistentOodConstraintEvaluations"
    ELSE IF step = "pow" THEN "FriProofOfWork"
    ELSE IF step = "base" THEN "BaseTraceQueryDoesNotMatchCommitment"
    ELSE IF step = "extension" THEN "ExtensionTraceQueryDoesNotMatchCommitment"
    ELSE IF step = "composition" THEN "CompositionTraceQueryDoesNotMatchCommitment"
    ELSE "FriVerification"

\* the last coin operation a failing check leaves behind
LastCoinOpOfStep(step) ==
    IF step = "ood" THEN "reseed_ood_evaluations"
    ELSE IF step = "fri_new" THEN "fri_commit_phase"
    ELSE IF step = "pow" THEN "reseed_pow_nonce"
    ELSE "draw_positions"

\* C2: verify returns Ok only if every check of the run passed (the OOD
\* comparison, the proof of work when grinding_factor > 0, every Merkle
\* opening of the base, extension and composition tables, the FRI
\* verifier); the first check that fails is the last step executed, it
\* names the returned error, and no coin operation follows it.
C2_OkOnlyIfEveryCheckPassed ==
    /\ \A i \in 1..(Len(steps) - 1) : CheckPassed(i)
    /\ vpc # "done" => (result = "" /\ \A i \in 1..Len(steps) : CheckPassed(i))
    /\ (vpc = "done" /\ result # "panic") =>
          /\ steps # <<>>
          /\ IF CheckPassed(Len(steps))
             THEN /\ result = "Ok"
                  /\ steps[Len(steps)] = "fri_verify"
             ELSE /\ result = ErrorOfStep(steps[Len(steps)])
                  /\ public_coin[Len(public_coin)].op = LastCoinOpOfStep(steps[Len(steps)])
    /\ result = "Ok" =>
          /\ ood[1] = ood[2]
          /\ fri_verdicts = <<TRUE, TRUE>>
          /\ proof.options.grinding_factor > 0 =>
                (leading_zeros # <<>> /\ leading_zeros[1] >= proof.options.grinding_factor)
          /\ \A t \in PresentTables(proof) :
                \A k \in 1..Count(steps, t) : OpeningResolves(t, k)

\* a composition opening failed after a base opening had passed
C2_Witness ==
    /\ vpc = "done"
    /\ result = "CompositionTraceQueryDoesNotMatchCommitment"
    /\ Count(steps, "base") >= 1
    /\ proof.options.grinding_factor > 0

\* C3: when the recomputed OOD evaluation differs from the fold of the
\* provided evaluations in z, verify returns
\* InconsistentOodConstraintEvaluations with the FRI verifier not built,
\* pow_nonce not absorbed, no query position drawn and no Merkle opening
\* checked, and with trace_queries not read at all.
C3_OodMismatchReturnsFirst ==
    (ood # <<>> /\ ood[1] # ood[2]) =>
        /\ vpc = "done"
        /\ result = "InconsistentOodConstraintEvaluations"
        /\ steps = <<"ood">>
        /\ public_coin[Len(public_coin)].op = "reseed_ood_evaluations"
        /\ ~Absorbed("draw_deep_coeffs")
        /\ ~Absorbed("fri_commit_phase")
        /\ ~Absorbed("reseed_pow_nonce")
        /\ ~Absorbed("draw_positions")
        /\ fri_verdicts = <<>>
        /\ query_positions = <<>>
        /\ \A t \in Tables :
              /\ proof.trace_queries[t].rows = Unread
              /\ proof.trace_queries[t].proofs = Unread

\* the fold of two provided evaluations differs from the recomputed one
C3_Witness ==
    /\ vpc = "done"
    /\ ood # <<>>
    /\ ood[1] # ood[2]
    /\ Len(proof.ood_constraint_evaluations) = 2
    /\ proof.options.num_queries > 0

\* C4: when the DEEP evaluations are computed, every one of the
\* num_queries query positions has had its row hashed and its Merkle
\* opening verified against each commitment the proof carries.
C4_EveryPositionOpened ==
    (vpc = "deep" \/ Executed("deep")) =>
        \A t \in PresentTables(proof) :
            Count(steps, t) = proof.options.num_queries

\* the coin operations the contract orders
ContractOp(o) ==
    o.op \in {"seed", "reseed_base_commitment", "reseed_extension_commitment",
              "reseed_composition_commitment", "draw_z", "reseed_ood_curr",
              "reseed_ood_next", "reseed_ood_evaluations", "draw_deep_coeffs",
              "reseed_pow_nonce", "draw_positions"}

\* the fixed order, with what each reseed absorbs
ContractOrder(p) ==
    <<CoinOp("seed", SeedBytes(p)),
      CoinOp("reseed_base_commitment", <<p.base_trace_commitment>>)>>
    \o (IF p.extension_trace_commitment # <<>>
        THEN <<CoinOp("reseed_extension_commitment", p.extension_trace_commitment)>>
        ELSE <<>>)
    \o <<CoinOp("reseed_composition_commitment", <<p.composition_trace_commitment>>),
         CoinOp("draw_z", <<>>),
         CoinOp("reseed_ood_curr", <<p.ood_trace_states[1]>>),
         CoinOp("reseed_ood_next", <<p.ood_trace_states[2]>>),
         CoinOp("reseed_ood_evaluations", p.ood_constraint_evaluations),
         CoinOp("draw_deep_coeffs", <<>>)>>
    \o (IF p.options.grinding_factor > 0
        THEN <<CoinOp("reseed_pow_nonce", <<p.pow_nonce>>)>>
        ELSE <<>>)
    \o <<CoinOp("draw_positions", <<>>)>>

IsPrefix(s, t) == Len(s) <= Len(t) /\ s = SubSeq(t, 1, Len(s))

\* C5: the coin operations of a run, as far as it got, are the fixed
\* sequence seed, reseed(base), [reseed(ext)], reseed(comp), draw z,
\* reseed(ood curr), reseed(ood next), reseed(ood evals), draw DEEP
\* coefficients, [reseed(pow_nonce)], draw positions, in this order; a run
\* that returns Ok has done all of them.
C5_CoinOrderFixed ==
    LET done_ops == SelectSeq(public_coin, ContractOp)
    IN  /\ IsPrefix(done_ops, ContractOrder(proof))
        /\ result = "Ok" => done_ops = ContractOrder(proof)

\* a run with both optional absorptions got to the end
C5_Witness ==
    /\ result = "Ok"
    /\ proof.extension_trace_commitment # <<>>
    /\ proof.options.grinding_factor > 0
    /\ Absorbed("reseed_extension_commitment")
    /\ Absorbed("reseed_pow_nonce")

\* the checks before the proof of work passed
ReachedProofOfWork ==
    /\ fri_verdicts # <<>>
    /\ fri_verdicts[1]
    /\ vpc # "pow"

\* C6: with grinding_factor > 0 and the earlier checks passed, pow_nonce
\* is absorbed and verify returns FriProofOfWork exactly when
\* seed_leading_zeros() < grinding_factor, and goes on to draw the query
\* positions otherwise; with grinding_factor = 0 the nonce is not
\* absorbed and FriProofOfWork is not returned.
C6_ProofOfWork ==
    LET grinding_factor == proof.options.grinding_factor
    IN  /\ grinding_factor = 0 =>
              /\ ~Absorbed("reseed_pow_nonce")
              /\ leading_zeros = <<>>
              /\ result # "FriProofOfWork"
        /\ (grinding_factor > 0 /\ ReachedProofOfWork) =>
              /\ leading_zeros # <<>>
              /\ \E i \in 1..Len(public_coin) :
                    public_coin[i] = CoinOp("reseed_pow_nonce", <<proof.pow_nonce>>)
              /\ IF leading_zeros[1] < grinding_factor
                 THEN vpc = "done" /\ result = "FriProofOfWork"
                 ELSE /\ result # "FriProofOfWork"
                      /\ vpc = "positions" \/ Executed("positions")
        /\ result = "FriProofOfWork" =>
              (grinding_factor > 0 /\ ReachedProofOfWork)

\* the leading zeros fell short of the grinding factor
C6_Witness ==
    /\ vpc = "done"
    /\ result = "FriProofOfWork"
    /\ leading_zeros # <<>>
    /\ leading_zeros[1] < proof.options.grinding_factor

\* C7 as stated: a verified proof with only base_commit changed is
\* rejected with BaseTraceQueryDoesNotMatchCommitment.
C7_TamperedBaseCommitReportedByMerkle ==
    (phase = 2 /\ tampered = "base_trace_commitment" /\ vpc = "done") =>
        result = "BaseTraceQueryDoesNotMatchCommitment"

\* C7: a verified proof with only base_commit changed is rejected with
\* BaseTraceQueryDoesNotMatchCommitment at the first base opening, when the
\* run gets there; the changed commitment is absorbed by the coin before,
\* so the run may end at an earlier check, and it is the base check that
\* reports only if the OOD comparison, FriVerifier::new and the proof of
\* work passed again.
C7_BaseCheckRejectsTamperedCommit ==
    (phase = 2 /\ tampered = "base_trace_commitment") =>
        /\ Count(steps, "base") >= 1 =>
              /\ vpc = "done"
              /\ result = "BaseTraceQueryDoesNotMatchCommitment"
              /\ steps[Len(steps)] = "base"
              /\ Count(steps, "base") = 1
        /\ result = "BaseTraceQueryDoesNotMatchCommitment" =>
              /\ ood[1] = ood[2]
              /\ fri_verdicts = <<TRUE>>
        /\ public_coin # <<>> =>
              public_coin[2] = CoinOp("reseed_base_commitment",
                                      <<proof.base_trace_commitment>>)

\* the run on the changed commitment got to the base opening and failed
\* there
C7_Witness ==
    /\ phase = 2
    /\ tampered = "base_trace_commitment"
    /\ vpc = "done"
    /\ result = "BaseTraceQueryDoesNotMatchCommitment"
    /\ fresh

\* C8: a verified proof with any single field changed is rejected: a
\* second run that is asked nothing the first run was not asked, so that
\* every hash and every FRI answer is the one of the first run, does not
\* return Ok.
C8_EveryFieldChangeRejected ==
    (phase = 2 /\ vpc = "done" /\ ~fresh) => result # "Ok"


\* C23: a proof whose options are insecure, num_queries = 0 among them, is
\* rejected by verify: it never returns Ok, and the run never gets to the
\* draw of the query positions or to a step after it.
C23_InsecureOptionsRejected ==
    proof.options.num_queries = 0 =>
        /\ result # "Ok"
        /\ \A k \in 1..Len(steps) : steps[k] # "positions"
        /\ vpc \notin Tables \cup {"deep", "fri"}


\* C24: when the degree adjustment of a constraint, composition_degree -
\* (deg * (trace_len - 1) - divisor_degree), would be negative, or the
\* quantity deg * (trace_len - 1) - divisor_degree itself would be, the
\* thread of the verifier panics: no exponent is computed, wrapped or
\* clamped. Otherwise the exponent is the degree adjustment.
C24_NegativeDegreeAborts ==
    (air_in.kind = "ood_degree" /\ apc # "rows") =>
        LET g == air_in.degrees
            quantity == g.constraint_degree * (g.trace_len - 1) - g.divisor_degree
        IN  IF quantity < 0 \/ g.composition_degree - quantity < 0
            THEN apc = "panic" /\ air_out = <<>>
            ELSE apc = "evaluated" /\ air_out = <<g.composition_degree - quantity>>

\* a constraint of degree 0 has ended the run of a build that wraps: the
\* wrapped quantity failed the assertion
C24_Witness ==
    /\ air_in.kind = "ood_degree"
    /\ apc = "panic"
    /\ build = "release"
    /\ air_in.degrees.constraint_degree = 0
    /\ air_in.degrees.composition_degree = MaxCompositionDegree


\* C25: the Memory-permutation transition constraint of the Processor
\* table forces the running product: on a pair whose current row executes
\* an instruction (Dummy = 0) it vanishes only if MemoryPermutation' =
\* MemoryPermutation * (Beta - D*Cycle - E*Mp - F*MemVal), on a pair whose
\* current row is padding (CurrInstr = 0, Dummy = 1) only if
\* MemoryPermutation' = MemoryPermutation.
C25_MemoryPermutationForced ==
    (air_in.kind = "processor_ext" /\ apc = "evaluated") =>
        LET P == ProcessorBaseColumn
            X == ProcessorExtensionColumn
            base == air_in.curr.processor
            mem_perm == Col(air_in.curr.processor_ext, X.MemoryPermutation)
            mem_perm_n == Col(air_in.next.processor_ext, X.MemoryPermutation)
            factor == MemoryFactor(air_in.challenge, Col(base, P.Cycle),
                                   Col(base, P.Mp), Col(base, P.MemVal))
        IN  /\ (Col(base, P.CurrInstr) \in OpCodes /\ Col(base, P.Dummy) = 0) =>
                   (air_out[2] = 0 => mem_perm_n = FMul(mem_perm, factor))
            /\ (Col(base, P.CurrInstr) = 0 /\ Col(base, P.Dummy) = 1) =>
                   (air_out[2] = 0 => mem_perm_n = mem_perm)


\* C27: the extension commitment is absorbed into the coin, and the
\* extension rows are checked against it, exactly when the AIR declares
\* extension columns; every extension row that enters the DEEP
\* evaluations was checked against an extension commitment.
C27_ExtensionRowsAuthenticated ==
    /\ vpc \notin {"off", "seed"} =>
           (Absorbed("reseed_extension_commitment")
               <=> proof.trace_info.num_extension_columns > 0)
    /\ Executed("deep") =>
           Count(steps, "extension") =
               Len(ZippedRows(RowsOf(proof, "extension"), Len(query_positions)))


\* the columns of an Instruction row pair that the permutation constraint
\* of InstructionExtensionColumn reads
InstrPair ==
    LET I == InstructionBaseColumn
        X == InstructionExtensionColumn
    IN  [ip |-> Col(air_in.curr.instruction, I.Ip),
         ip_n |-> Col(air_in.next.instruction, I.Ip),
         ci |-> Col(air_in.curr.instruction, I.CurrInstr),
         pp |-> Col(air_in.curr.instruction_ext, X.ProcessorPermutation),
         pp_n |-> Col(air_in.next.instruction_ext, X.ProcessorPermutation),
         curr_factor |->
             InstructionFactor(air_in.challenge,
                               Col(air_in.curr.instruction, I.Ip),
                               Col(air_in.curr.instruction, I.CurrInstr),
                               Col(air_in.curr.instruction, I.NextInstr)),
         next_factor |->
             InstructionFactor(air_in.challenge,
                               Col(air_in.next.instruction, I.Ip),
                               Col(air_in.next.instruction, I.CurrInstr),
                               Col(air_in.next.instruction, I.NextInstr))]

InstrPairEvaluated == apc = "evaluated" /\ air_in.kind = "instruction_ext"

\* C29: the Instruction-side permutation constraint vanishes on a row
\* pair whose current CurrInstr is not 0 only if ProcessorPermutation is
\* multiplied by one factor (of the current or of the next row), whether
\* or not Ip changes, and on a padding row exactly if
\* ProcessorPermutation is unchanged.
C29_EveryNonPaddingRowContributes ==
    InstrPairEvaluated =>
        LET r == InstrPair
        IN  /\ r.ci # 0 /\ air_out[1] = 0 =>
                   r.pp_n \in {FMul(r.pp, r.curr_factor),
                               FMul(r.pp, r.next_factor)}
            /\ r.ci = 0 /\ r.ip_n = r.ip =>
                   (air_out[1] = 0 <=> r.pp_n = r.pp)

\* the running evaluations on the last rows and the products the
\* terminal constraints compare them with
Terminal ==
    [in_eval |-> Col(air_in.curr.processor_ext,
                     ProcessorExtensionColumn.InputEvaluation),
     out_eval |-> Col(air_in.curr.processor_ext,
                      ProcessorExtensionColumn.OutputEvaluation),
     input |-> Col(air_in.curr.input_ext, InputExtensionColumn.Evaluation),
     output |-> Col(air_in.curr.output_ext, OutputExtensionColumn.Evaluation),
     in_hint |-> air_in.hint.Input,
     out_hint |-> air_in.hint.Output,
     in_product |-> FMul(air_in.hint.Input, air_in.hint.InputOffset),
     out_product |-> FMul(air_in.hint.Output, air_in.hint.OutputOffset)]

TerminalEvaluated(kind) == apc = "evaluated" /\ air_in.kind = kind

\* C30 as stated: the terminal constraints of the Processor columns
\* InputEvaluation and OutputEvaluation vanish exactly if the column
\* equals hint times offset at the last row, the value the Input and
\* Output tables are held to.
C30_ProcessorTerminalIsHintTimesOffset ==
    /\ TerminalEvaluated("processor_terminal") =>
           /\ air_out[3] = 0 <=> Terminal.in_eval = Terminal.in_product
           /\ air_out[4] = 0 <=> Terminal.out_eval = Terminal.out_product
    /\ TerminalEvaluated("input_terminal") =>
           (air_out[1] = 0 <=> Terminal.input = Terminal.in_product)
    /\ TerminalEvaluated("output_terminal") =>
           (air_out[1] = 0 <=> Terminal.output = Terminal.out_product)

\* C30 (amended): the terminal constraints of the Processor columns
\* vanish exactly if InputEvaluation = InputHint and OutputEvaluation =
\* OutputHint at the last row; the terminal constraints of the Input and
\* Output tables vanish exactly if Evaluation = hint times offset; one
\* value satisfies the Processor side and the table side together
\* exactly if it is the hint and hint = hint times offset, which is the
\* case exactly if the offset is 1 or the hint is 0.
C30_TerminalValuesDifferByOffset ==
    /\ TerminalEvaluated("processor_terminal") =>
           LET in_table == InputExtensionTerminal(
                   [ZeroRows EXCEPT !.input_ext = <<Terminal.in_eval>>],
                   air_in.hint)
               out_table == OutputExtensionTerminal(
                   [ZeroRows EXCEPT !.output_ext = <<Terminal.out_eval>>],
                   air_in.hint)
           IN  /\ air_out[3] = 0 <=> Terminal.in_eval = Terminal.in_hint
               /\ air_out[4] = 0 <=> Terminal.out_eval = Terminal.out_hint
               /\ (air_out[3] = 0 /\ in_table[1] = 0) <=>
                      /\ Terminal.in_eval = Terminal.in_hint
                      /\ Terminal.in_hint = 0 \/ air_in.hint.InputOffset = 1
               /\ (air_out[4] = 0 /\ out_table[1] = 0) <=>
                      /\ Terminal.out_eval = Terminal.out_hint
                      /\ Terminal.out_hint = 0 \/ air_in.hint.OutputOffset = 1
    /\ TerminalEvaluated("input_terminal") =>
           (air_out[1] = 0 <=> Terminal.input = Terminal.in_product)
    /\ TerminalEvaluated("output_terminal") =>
           (air_out[1] = 0 <=> Terminal.output = Terminal.out_product)

\* the Input table's terminal constraint vanishes on an evaluation that
\* is the hint times an offset other than 1
C30_TableWitness ==
    /\ TerminalEvaluated("input_terminal")
    /\ air_out[1] = 0
    /\ Terminal.input = Terminal.in_product
    /\ Terminal.input # Terminal.in_hint

\* the Processor's terminal constraint vanishes on the hint alone while
\* the offset is not 1
C30_Witness ==
    /\ TerminalEvaluated("processor_terminal")
    /\ air_out[3] = 0
    /\ Terminal.in_eval = Terminal.in_hint
    /\ Terminal.in_eval # Terminal.in_product


\* the call of ood_constraint_evaluation of the state
OodCall == air_in.ood

\* the constraints of the call in the order boundary, transition,
\* terminal, each with the divisor and divisor degree of its group
OrderedConstraints ==
    LET air == OodCall.air
        x == OodCall.x
    IN  [k \in 1..(Len(air.boundary_constraints) + Len(air.transition_constraints)
                    + Len(air.terminal_constraints)) |->
            IF k <= Len(air.boundary_constraints)
            THEN [constraint |-> air.boundary_constraints[k],
                  divisor |-> FInverse(FSub(x, 1)), divisor_degree |-> 1]
            ELSE IF k <= Len(air.boundary_constraints) + Len(air.transition_constraints)
            THEN [constraint |->
                      air.transition_constraints[k - Len(air.boundary_constraints)],
                  divisor |-> FMul(FSub(x, air.group_gen_inv),
                                   FInverse(FSub(FPow(x, air.trace_len), 1))),
                  divisor_degree |-> air.trace_len - 1]
            ELSE [constraint |->
                      air.terminal_constraints[k - Len(air.boundary_constraints)
                                                 - Len(air.transition_constraints)],
                  divisor |-> FInverse(FSub(x, air.group_gen_inv)),
                  divisor_degree |-> 1]]

\* the exponent of x for the k-th constraint (1-based)
AdjustmentOf(k) ==
    OodCall.air.composition_degree
        - (OrderedConstraints[k].constraint.degree * (OodCall.air.trace_len - 1)
             - OrderedConstraints[k].divisor_degree)

\* every constraint of the call passes the degree assertion
DegreesFit == \A k \in 1..Len(OrderedConstraints) : AdjustmentOf(k) >= 0

\* the sum in which the k-th constraint (1-based) is weighted with the
\* pair at first + step * (k - 1) of the drawn list, over the constraints
\* from k on
RECURSIVE WeightedFrom(_, _, _)
WeightedFrom(k, first, step) ==
    IF k > Len(OrderedConstraints) THEN 0
    ELSE LET item == OrderedConstraints[k]
             pair == OodCall.composition_coefficients[first + step * (k - 1)]
         IN  FAdd(FMul(FMul(item.constraint.evaluation, item.divisor),
                       FAdd(FMul(pair[1], FPow(OodCall.x, AdjustmentOf(k))),
                            pair[2])),
                  WeightedFrom(k + 1, first, step))

\* C34: ood_constraint_evaluation walks the constraints in the order
\* boundary, transition, terminal and gives each one coefficient pair,
\* taken from the end of the drawn list: of m drawn pairs the k-th
\* constraint (0-based) gets the pair m-1-k, which is the pair n-1-k when
\* as many pairs as the n constraints were drawn; with fewer pairs than
\* constraints the call panics and returns nothing.
C34_CoefficientsPoppedFromTheEnd ==
    air_in.kind = "ood_sum" /\ apc # "rows" =>
        LET n == Len(OrderedConstraints)
            m == Len(OodCall.composition_coefficients)
        IN  /\ m < n => apc = "panic" /\ air_out = <<>>
            /\ (m >= n /\ DegreesFit) =>
                   /\ apc = "evaluated"
                   /\ air_out = <<WeightedFrom(1, m, -1)>>
            /\ (m = n /\ DegreesFit) =>
                   air_out = <<WeightedFrom(1, n, -1)>>
            /\ apc = "evaluated" => m >= n

\* a call with a constraint in every group and as many pairs as
\* constraints has returned a sum that depends on the order of the pairs
C34_Witness ==
    /\ air_in.kind = "ood_sum"
    /\ apc = "evaluated"
    /\ Len(OodCall.air.boundary_constraints) = 1
    /\ Len(OodCall.air.transition_constraints) = 2
    /\ Len(OodCall.air.terminal_constraints) = 1
    /\ Len(OodCall.composition_coefficients) = 4
    /\ air_out = <<WeightedFrom(1, 4, -1)>>
    /\ air_out # <<WeightedFrom(1, 1, 1)>>

=============================================================================
